---- MODULE Spec2Model ----
(***************************************************************************)
(* Tick-loop source (TickLoopSource / MockWorldSource) with its history    *)
(* store and its subscriber streams, modelled as an asyncio program: every *)
(* action is the code that runs between two suspension points.             *)
(***************************************************************************)
EXTENDS Integers, Sequences, FiniteSets, TLC

\* ------------------------------------------------------------------ bounds
MaxTick == 2          \* ticks executed after one connect()
MaxConnects == 2      \* connect() calls in one behaviour
MaxSubs == 2          \* subscribe() calls in one behaviour
QueueMax == 2         \* event_queue_maxsize of the source
MaxHistory == 2       \* max_history_ticks of the source
MaxSpans == 1         \* spans _generate_spans produces in one tick
EntityCount == 1      \* entity_count of the source
MaxRemaining == 1     \* largest Deadline.remaining_ticks drawn for a new entity
MaxStoreTick == 3     \* largest tick number given to record_tick() of a store used on its own
MaxCalls == 4         \* record_tick() calls made on that store between two clear()
MaxObjs == 2          \* objects whose references are given to that store
MaxData == 1          \* largest value the data of such an object takes
MaxCmds == 2          \* client messages the server receives in one behaviour
MaxGateCmds == 3      \* playback commands the server receives in a behaviour of SpecGate
MaxReconnectAttempts == 3 \* largest reconnect_attempts a RemoteWorldSource is given
MaxReconnectDelay == 4 \* largest reconnect_delay and max_reconnect_delay, in seconds
MaxEntityId == 2      \* largest entity id in the snapshots given to the delta engine
MaxPayload == 1       \* largest data payload of a component in those snapshots
CheckpointInterval == 3  \* checkpoint_interval of a checkpoint + delta store
MaxCheckpointTick == 3   \* largest tick recorded into that store
MaxCheckpointCalls == 4  \* record_tick() calls made on that store that recorded something
BufferSize == 3       \* buffer_size of a RemoteWorldSource
MaxRemoteEvents == 6  \* tick messages the remote server sends
MaxFileTick == 2       \* largest tick number written to a FileHistoryStore
MaxFileLines == 3      \* record_tick() calls that write to one file before it is truncated
MaxReplayTick == 3     \* largest tick in a store that is replayed
MaxReplayLen == 3      \* ticks in such a store
MaxLifecycleTick == 3  \* largest tick in a store given to compute_entity_lifecycles
MaxLifecycleLen == 3   \* ticks in such a store
MaxLifecycleId == 2    \* largest entity id in its snapshots

\* ------------------------------------------------------- program constants
MIN_ENTITY_COUNT == 10

VARIABLES
    connected,      \* self._connected
    paused,         \* self._paused
    tick_interval,  \* self._tick_interval, a rational <<num, den>>
    stopGen,        \* self._stop_event: 0 is None, n is the Event made by the n-th connect()
    stopSet,        \* the Event objects that are set
    loop_task,      \* self._loop_task: 0 is None, n is the task made by the n-th connect()
    drv,            \* the _run_loop tasks: position and the Event each one waits on
    joining,        \* the task disconnect() awaits after cancelling it, 0 when none
    tick,           \* self._tick
    entities,       \* self._entities: the list of entity objects
    data,           \* the entity objects: Deadline.remaining_ticks of each
    history,        \* self._history._records, in insertion order
    errors,         \* self._history error side-store
    spans,          \* self._history span side-store
    subscribers,    \* self._subscribers
    sub,            \* the subscribe() generators: position of each
    queue,          \* the asyncio.Queue of each subscription
    recv,           \* the events each consumer has been handed
    lost,           \* whether an event was dropped for the subscription (a warning is logged)
    regTick,        \* self._tick when the subscription's queue was registered
    reply,          \* the last get_snapshot() call: its argument and what it returned
    store,          \* the _records of an InMemoryHistoryStore used on its own
    heap,           \* the objects whose references that store was given: their data
    calls,          \* the record_tick() calls made on that store, as they were made
    hc_paused,      \* HistoryCapturingSource._paused
    hc_tick,        \* HistoryCapturingSource._current_tick
    hc_step,        \* HistoryCapturingSource._pending_step
    hc_owed,        \* the step commands that have not had their event passed on yet
    hc_store,       \* HistoryCapturingSource._store._records
    ws,             \* the websocket sessions: none, open, or closed once the endpoint returned
    rtask,          \* receive_task of each session
    wtask,          \* send_task of each session
    peer,           \* whether the client of the session is still connected
    out,            \* the messages sent to the client of each session
    cmds,           \* the number of client messages received so far
    rx,             \* the last client message received and the session it came in on
    engine,         \* the delta engine: the two snapshots given to it, the delta and the patched snapshot
    ckstore,        \* a checkpoint + delta history store used on its own
    remote,         \* a RemoteWorldSource: its pause flag, its buffer and its event queue
    fstore,         \* a FileHistoryStore and the file it is opened on
    replay,         \* a ReplayWorldSource over a recorded store
    lifecycle       \* a compute_entity_lifecycles(store) call: the store and what it returned

lifeVars == <<connected, stopGen, stopSet, loop_task, drv, joining>>
worldVars == <<tick, entities, data, history, errors, spans>>
subVars == <<subscribers, sub, queue, recv, lost, regTick>>
sourceVars == <<paused, tick_interval, lifeVars, worldVars, subVars, reply>>
storeVars == <<store, heap, calls>>
hcVars == <<hc_paused, hc_tick, hc_step, hc_owed, hc_store>>
sessVars == <<ws, rtask, wtask, peer, out, cmds, rx>>
serverVars == <<hcVars, sessVars>>
auxVars == <<engine, ckstore, remote, fstore, replay, lifecycle>>
extVars == <<storeVars, serverVars, auxVars>>
programVars == <<sourceVars, storeVars, serverVars, lifecycle>>
vars == <<connected, paused, tick_interval, stopGen, stopSet, loop_task, drv,
          joining, tick, entities, data, history, errors, spans, subscribers,
          sub, queue, recv, lost, regTick, reply, extVars>>

Drivers == 1..MaxConnects
Subs == 1..MaxSubs

\* --------------------------------------------------------------- helpers
Range(s) == {s[i] : i \in DOMAIN s}

Min(a, b) == IF a < b THEN a ELSE b

Max(a, b) == IF a < b THEN b ELSE a

Take(s, n) == SubSeq(s, 1, Min(n, Len(s)))

RECURSIVE SeqMax(_)
SeqMax(s) == IF Len(s) = 1 THEN s[1] ELSE Max(s[1], SeqMax(Tail(s)))

RECURSIVE Gcd(_, _)
Gcd(a, b) == IF b = 0 THEN a ELSE Gcd(b, a % b)

\* ------------------------------------------------------ snapshot, events
WorldSnapshot(t, ents, p) == [tick |-> t, entities |-> ents, paused |-> p]

SnapshotMessage(t) == [type |-> "snapshot", tick |-> t, seq |-> 0]

ErrorEventMessage(t) == [type |-> "error_event", tick |-> t, seq |-> 0]

SpanEventMessage(t, i) == [type |-> "span_event", tick |-> t, seq |-> i]

\* --------------------------------------------------- InMemoryHistoryStore
RECURSIVE EvictNewest(_)
\* variant: popitem() with its default last=True, the newest record is evicted
EvictNewest(records) ==
    IF Len(records) > MaxHistory
    THEN EvictNewest(SubSeq(records, 1, Len(records) - 1)) ELSE records

RECURSIVE EvictOldest(_)
EvictOldest(records) ==
    IF Len(records) > MaxHistory THEN EvictOldest(Tail(records)) ELSE records

\* variant: a tick recorded again is deleted and inserted anew, at the end
HistoryRecordTickMoveToEnd(records, record) ==
    EvictOldest(Append(SelectSeq(records, LAMBDA r : r.tick # record.tick), record))

HistoryRecordTick(records, record) ==
    LET put == IF \E i \in DOMAIN records : records[i].tick = record.tick
               THEN [i \in DOMAIN records |->
                        IF records[i].tick = record.tick THEN record ELSE records[i]]
               ELSE Append(records, record)
    IN EvictOldest(put)

\* Python's None is the empty sequence and a value x is <<x>>
None == <<>>

Some(x) == <<x>>

HistoryGetSnapshot(records, t) ==
    IF \E i \in DOMAIN records : records[i].tick = t
    THEN Some(CHOOSE r \in Range(records) : r.tick = t)
    ELSE None

HistoryGetTickRange(records) ==
    IF Len(records) = 0 THEN None ELSE <<records[1].tick, records[Len(records)].tick>>

HistoryTickCount(records) == Len(records)

HistoryClear == <<>>

RetainedTicks(records) == {records[i].tick : i \in DOMAIN records}

\* the error and span side-stores: entries of evicted ticks are removed
SidePrune(side, records) ==
    SelectSeq(side, LAMBDA e : e.tick \in RetainedTicks(records))

\* ------------------------------------------------------- TickLoopSource
IsSet(g) == g \in stopSet

\* variant: QueueFull is not caught, so one full queue ends the loop and the
\* queues after it are not served
EmitEventAbort(qs, targets, event) ==
    IF \E s \in targets : Len(qs[s]) >= QueueMax
    THEN qs
    ELSE [s \in Subs |-> IF s \in targets THEN Append(qs[s], event) ELSE qs[s]]

\* variant: a full queue drops its oldest event to take the new one
EmitEventDropOldest(qs, targets, event) ==
    [s \in Subs |->
        IF s \in targets
        THEN IF Len(qs[s]) < QueueMax THEN Append(qs[s], event)
             ELSE Append(Tail(qs[s]), event)
        ELSE qs[s]]

\* variant: a single consumer queue, only one subscriber is served
EmitEventSingle(qs, targets, event) ==
    [s \in Subs |->
        IF s \in targets /\ Len(qs[s]) < QueueMax /\ \A o \in targets : s <= o
        THEN Append(qs[s], event) ELSE qs[s]]

\* _emit_event: put_nowait on every subscriber queue, QueueFull is swallowed
EmitEvent(qs, targets, event) ==
    [s \in Subs |->
        IF s \in targets /\ Len(qs[s]) < QueueMax THEN Append(qs[s], event) ELSE qs[s]]

RECURSIVE EmitEvents(_, _, _)
\* successive awaits of _emit_event
EmitEvents(qs, targets, events) ==
    IF events = <<>> THEN qs
    ELSE EmitEvents(EmitEvent(qs, targets, Head(events)), targets, Tail(events))

\* the subscriptions for which a run of emits logs "Subscriber queue full,
\* dropping event"
Overflowed(qs, targets, events) ==
    {s \in targets : Len(qs[s]) + Len(events) > QueueMax}

\* ------------------------------------------------------ MockWorldSource
BuildSnapshot(t, ents, p) == WorldSnapshot(t, ents, p)

\* _update_entities: age every Deadline, then maybe spawn, then maybe despawn
Aged(d, ents) ==
    [o \in DOMAIN d |-> IF o \in Range(ents) THEN Max(0, d[o] - 1) ELSE d[o]]

CanSpawn(ents) == 2 * Len(ents) < 3 * EntityCount

NewId(ents) == IF ents = <<>> THEN 0 ELSE SeqMax(ents) + 1

CanDespawn(ents) == Len(ents) > MIN_ENTITY_COUNT

Pop(ents, i) == SubSeq(ents, 1, i - 1) \o SubSeq(ents, i + 1, Len(ents))

\* variant: the error event is emitted before the tick's snapshot
TickEventsErrorFirst(t, err, ns, ents) ==
    (IF ents # <<>> /\ err THEN <<ErrorEventMessage(t)>> ELSE <<>>)
    \o <<SnapshotMessage(t)>>
    \o (IF ents # <<>> THEN [i \in 1..ns |-> SpanEventMessage(t, i)] ELSE <<>>)

TickEvents(t, err, ns, ents) ==
    <<SnapshotMessage(t)>>
    \o (IF ents # <<>> /\ err THEN <<ErrorEventMessage(t)>> ELSE <<>>)
    \o (IF ents # <<>> THEN [i \in 1..ns |-> SpanEventMessage(t, i)] ELSE <<>>)

\* _execute_tick; spawnRem = 0 and popIdx = 0 stand for the random draws that
\* do not spawn and do not despawn
ExecuteTick(spawnRem, popIdx, err, ns) ==
    /\ tick < MaxTick
    /\ LET t == tick + 1
           aged == Aged(data, entities)
           doSpawn == spawnRem > 0 /\ CanSpawn(entities)
           id == NewId(entities)
           ents1 == IF doSpawn THEN Append(entities, id) ELSE entities
           data1 == IF doSpawn
                    THEN [o \in DOMAIN aged \cup {id} |-> IF o = id THEN spawnRem ELSE aged[o]]
                    ELSE aged
           doPop == popIdx \in 1..Len(ents1) /\ CanDespawn(ents1)
           ents2 == IF doPop THEN Pop(ents1, popIdx) ELSE ents1
           snapshot == BuildSnapshot(t, ents2, paused)
           records == HistoryRecordTick(history, snapshot)
           events == TickEvents(t, err, ns, ents2)
       IN /\ tick' = t
          /\ entities' = ents2
          /\ data' = data1
          /\ history' = records
          /\ errors' = SidePrune(errors \o SelectSeq(events, LAMBDA e : e.type = "error_event"),
                                 records)
          /\ spans' = SidePrune(spans \o SelectSeq(events, LAMBDA e : e.type = "span_event"),
                                records)
          /\ queue' = EmitEvents(queue, subscribers, events)
          /\ lost' = [s \in Subs |-> lost[s] \/ s \in Overflowed(queue, subscribers, events)]

SomeTick ==
    \E spawnRem \in 0..MaxRemaining, popIdx \in 0..Len(entities) + 1,
       err \in BOOLEAN, ns \in 0..MaxSpans :
        ExecuteTick(spawnRem, popIdx, err, ns)

\* variant: _on_connect without self._history.clear()
OnConnectKeepHistory(rem) ==
    LET ents == [i \in 1..EntityCount |-> i - 1]
        snapshot == BuildSnapshot(0, ents, FALSE)
    IN /\ tick' = 0
       /\ paused' = FALSE
       /\ entities' = ents
       /\ data' = [o \in 0..EntityCount - 1 |-> rem[o + 1]]
       /\ history' = HistoryRecordTick(history, snapshot)
       /\ errors' = <<>>
       /\ spans' = <<>>

\* _on_connect, with the random Deadline drawn for each generated entity
OnConnect(rem) ==
    LET ents == [i \in 1..EntityCount |-> i - 1]
        snapshot == BuildSnapshot(0, ents, FALSE)
    IN /\ tick' = 0
       /\ paused' = FALSE
       /\ entities' = ents
       /\ data' = [o \in 0..EntityCount - 1 |-> rem[o + 1]]
       /\ history' = HistoryRecordTick(HistoryClear, snapshot)
       /\ errors' = <<>>
       /\ spans' = <<>>

\* connect()
Connect ==
    /\ joining = 0
    /\ stopGen < MaxConnects
    /\ connected' = TRUE
    /\ stopGen' = stopGen + 1
    /\ subscribers' = {}
    /\ \E rem \in [1..EntityCount -> 1..MaxRemaining] : OnConnect(rem)
    /\ loop_task' = stopGen + 1
    /\ drv' = [drv EXCEPT ![stopGen + 1] = [pc |-> "ready", ev |-> 0]]
    /\ UNCHANGED <<tick_interval, stopSet, joining, sub, queue, recv, lost, regTick>>
    /\ UNCHANGED <<reply, extVars>>

\* disconnect() up to its await of the cancelled loop task; when there is no
\* task to await it runs to its end
DisconnectBegin ==
    /\ joining = 0
    /\ connected' = FALSE
    /\ stopSet' = IF stopGen # 0 THEN stopSet \cup {stopGen} ELSE stopSet
    /\ IF loop_task # 0 /\ drv[loop_task].pc # "done"
       THEN /\ joining' = loop_task
            /\ UNCHANGED <<loop_task, subscribers>>
       ELSE /\ loop_task' = 0
            /\ subscribers' = {}
            /\ UNCHANGED joining
    /\ UNCHANGED <<paused, tick_interval, stopGen, drv, sub, queue, recv, lost, regTick>>
    /\ UNCHANGED worldVars
    /\ UNCHANGED <<reply, extVars>>

\* the cancelled task receives CancelledError at its await (or before it starts)
DriverCancelled(d) ==
    /\ joining = d
    /\ drv[d].pc \in {"ready", "waiting"}
    /\ drv' = [drv EXCEPT ![d].pc = "done"]
    /\ UNCHANGED <<connected, paused, tick_interval, stopGen, stopSet, loop_task, joining>>
    /\ UNCHANGED worldVars
    /\ UNCHANGED subVars
    /\ UNCHANGED <<reply, extVars>>

\* variant: disconnect() without self._subscribers.clear()
DisconnectEndKeepSubscribers ==
    /\ joining # 0
    /\ drv[joining].pc = "done"
    /\ loop_task' = 0
    /\ joining' = 0
    /\ UNCHANGED <<connected, paused, tick_interval, stopGen, stopSet, drv>>
    /\ UNCHANGED worldVars
    /\ UNCHANGED subVars
    /\ UNCHANGED <<reply, extVars>>

\* disconnect() after the awaited task has ended
DisconnectEnd ==
    /\ joining # 0
    /\ drv[joining].pc = "done"
    /\ loop_task' = 0
    /\ subscribers' = {}
    /\ joining' = 0
    /\ UNCHANGED <<connected, paused, tick_interval, stopGen, stopSet, drv>>
    /\ UNCHANGED worldVars
    /\ UNCHANGED <<sub, queue, recv, lost, regTick>>
    /\ UNCHANGED <<reply, extVars>>

\* the while condition of _run_loop
LoopCondition == connected /\ stopGen # 0 /\ ~IsSet(stopGen)

\* variant: _tick_loop_body without the paused test
TickLoopBodyAlways == SomeTick

\* _tick_loop_body
TickLoopBody ==
    IF ~paused
    THEN SomeTick
    ELSE UNCHANGED <<tick, entities, data, history, errors, spans, queue, lost>>

\* one pass of _run_loop: from the start of the task, or from a wait that
\* timed out, through the body to the next wait
DriverIterate(d) ==
    /\ joining # d
    /\ \/ drv[d].pc = "ready"
       \/ drv[d].pc = "waiting" /\ ~IsSet(drv[d].ev)
    /\ IF LoopCondition
       THEN /\ TickLoopBody
            /\ drv' = [drv EXCEPT ![d] = [pc |-> "waiting", ev |-> stopGen]]
       ELSE /\ drv' = [drv EXCEPT ![d].pc = "done"]
            /\ UNCHANGED <<tick, entities, data, history, errors, spans, queue, lost>>
    /\ UNCHANGED <<connected, paused, tick_interval, stopGen, stopSet, loop_task, joining>>
    /\ UNCHANGED <<subscribers, sub, recv, regTick>>
    /\ UNCHANGED <<reply, extVars>>

\* the wait ends because the Event it waits on is set: break
DriverStopped(d) ==
    /\ joining # d
    /\ drv[d].pc = "waiting"
    /\ IsSet(drv[d].ev)
    /\ drv' = [drv EXCEPT ![d].pc = "done"]
    /\ UNCHANGED <<connected, paused, tick_interval, stopGen, stopSet, loop_task, joining>>
    /\ UNCHANGED worldVars
    /\ UNCHANGED subVars
    /\ UNCHANGED <<reply, extVars>>

\* the tick body raises: the exception leaves _run_loop, nothing catches it
\* and the task ends with it
DriverFails(d) ==
    /\ joining # d
    /\ \/ drv[d].pc = "ready"
       \/ drv[d].pc = "waiting" /\ ~IsSet(drv[d].ev)
    /\ LoopCondition
    /\ ~paused
    /\ drv' = [drv EXCEPT ![d].pc = "failed"]
    /\ UNCHANGED <<connected, paused, tick_interval, stopGen, stopSet, loop_task, joining>>
    /\ UNCHANGED worldVars
    /\ UNCHANGED subVars
    /\ UNCHANGED <<reply, extVars>>

\* ------------------------------------------------------------- commands
\* a ticks_per_second argument: its Python type and its value num/den
TpsInt(n) == [kind |-> "int", num |-> n, den |-> 1]

TpsFloat(n, d) == [kind |-> "float", num |-> n, den |-> d]

TpsBool(b) == [kind |-> "bool", num |-> IF b THEN 1 ELSE 0, den |-> 1]

TpsStr == [kind |-> "str", num |-> 0, den |-> 1]

\* kwargs.get("ticks_per_second", 1.0) when the argument is absent
TpsDefault == TpsFloat(1, 1)

TpsInputs ==
    {TpsInt(n) : n \in -1..2} \cup {TpsFloat(1, 2), TpsFloat(0, 1), TpsFloat(-1, 2)}
    \cup {TpsBool(TRUE), TpsBool(FALSE), TpsStr, TpsDefault}

\* variant: the test without "not isinstance(tps, bool)"
TpsAcceptedBool(tps) ==
    /\ tps.kind \in {"int", "float", "bool"}
    /\ tps.num > 0

\* isinstance(tps, int | float) and not isinstance(tps, bool) and tps > 0
TpsAccepted(tps) ==
    /\ tps.kind \in {"int", "float", "bool"}
    /\ tps.kind # "bool"
    /\ tps.num > 0

\* 1.0 / tps, in lowest terms
Reciprocal(tps) ==
    LET g == Gcd(tps.num, tps.den) IN <<tps.den \div g, tps.num \div g>>

\* send_command(command, ticks_per_second=tps)
SendCommand(command, tps) ==
    /\ CASE command = "pause" ->
              /\ paused' = TRUE
              /\ UNCHANGED <<tick_interval, queue, lost>>
              /\ UNCHANGED worldVars
         [] command = "resume" ->
              /\ paused' = FALSE
              /\ UNCHANGED <<tick_interval, queue, lost>>
              /\ UNCHANGED worldVars
         [] command = "step" ->
              /\ IF paused
                 THEN SomeTick
                 ELSE UNCHANGED <<queue, lost>> /\ UNCHANGED worldVars
              /\ UNCHANGED <<paused, tick_interval>>
         [] command = "set_speed" ->
              /\ tick_interval' = IF TpsAccepted(tps) THEN Reciprocal(tps) ELSE tick_interval
              /\ UNCHANGED <<paused, queue, lost>>
              /\ UNCHANGED worldVars
         [] OTHER ->
              /\ UNCHANGED <<paused, tick_interval, queue, lost>>
              /\ UNCHANGED worldVars
    /\ UNCHANGED lifeVars
    /\ UNCHANGED <<subscribers, sub, recv, regTick>>

Pause == SendCommand("pause", TpsDefault) /\ UNCHANGED <<reply, extVars>>

Resume == SendCommand("resume", TpsDefault) /\ UNCHANGED <<reply, extVars>>

\* variant: a step command that executes a tick whether paused or not
StepAlways ==
    /\ SomeTick
    /\ UNCHANGED <<paused, tick_interval>>
    /\ UNCHANGED lifeVars
    /\ UNCHANGED <<subscribers, sub, recv, regTick>>
    /\ UNCHANGED <<reply, extVars>>

Step == SendCommand("step", TpsDefault) /\ UNCHANGED <<reply, extVars>>

SetSpeed(tps) == SendCommand("set_speed", tps) /\ UNCHANGED <<reply, extVars>>

\* ------------------------------------------------------------ subscribe()
\* variant: subscribe() as a plain function that registers the queue when it
\* is called and returns the stream
SubscribeEager(s) ==
    /\ sub[s] = "new"
    /\ sub' = [sub EXCEPT ![s] = "created"]
    /\ subscribers' = IF stopGen # 0 /\ ~IsSet(stopGen) THEN subscribers \cup {s} ELSE subscribers
    /\ regTick' = [regTick EXCEPT ![s] = tick]
    /\ UNCHANGED <<queue, recv, lost>>
    /\ UNCHANGED <<paused, tick_interval>>
    /\ UNCHANGED lifeVars
    /\ UNCHANGED worldVars
    /\ UNCHANGED <<reply, extVars>>

\* subscribe() is called: the generator object exists, none of its code has run
Subscribe(s) ==
    /\ sub[s] = "new"
    /\ sub' = [sub EXCEPT ![s] = "created"]
    /\ UNCHANGED <<subscribers, queue, recv, lost, regTick>>
    /\ UNCHANGED <<paused, tick_interval>>
    /\ UNCHANGED lifeVars
    /\ UNCHANGED worldVars
    /\ UNCHANGED <<reply, extVars>>

\* the finally block of subscribe(): the queue leaves the subscriber set; the
\* generator is finished, its queue and what it handed out are no longer tracked
Finally(s) ==
    /\ sub' = [sub EXCEPT ![s] = "closed"]
    /\ subscribers' = subscribers \ {s}
    /\ queue' = [queue EXCEPT ![s] = <<>>]
    /\ recv' = [recv EXCEPT ![s] = <<>>]
    /\ lost' = [lost EXCEPT ![s] = FALSE]
    /\ regTick' = [regTick EXCEPT ![s] = 0]

\* the generator runs from its start to its first get: without a stop event
\* it ends at once, otherwise it registers its queue
SubEnter(s) ==
    IF stopGen = 0
    THEN /\ sub' = [sub EXCEPT ![s] = "closed"]
         /\ UNCHANGED <<subscribers, queue, regTick, lost>>
    ELSE IF IsSet(stopGen)
         THEN /\ sub' = [sub EXCEPT ![s] = "closed"]
              /\ UNCHANGED <<subscribers, queue, regTick, lost>>
         ELSE /\ sub' = [sub EXCEPT ![s] = "waiting"]
              /\ subscribers' = subscribers \cup {s}
              /\ queue' = [queue EXCEPT ![s] = <<>>]
              /\ regTick' = [regTick EXCEPT ![s] = tick]
              /\ lost' = [lost EXCEPT ![s] = FALSE]

\* first iteration of the generator: register the queue and reach the first get
SubStart(s) ==
    /\ sub[s] = "created"
    /\ SubEnter(s)
    /\ UNCHANGED recv
    /\ UNCHANGED <<paused, tick_interval>>
    /\ UNCHANGED lifeVars
    /\ UNCHANGED worldVars
    /\ UNCHANGED <<reply, extVars>>

\* queue.get() returns an event and the generator yields it to its consumer
SubGet(s) ==
    /\ sub[s] = "waiting"
    /\ queue[s] # <<>>
    /\ recv' = [recv EXCEPT ![s] = Append(@, Head(queue[s]))]
    /\ queue' = [queue EXCEPT ![s] = Tail(@)]
    /\ sub' = [sub EXCEPT ![s] = "yielded"]
    /\ UNCHANGED <<subscribers, lost, regTick>>
    /\ UNCHANGED <<paused, tick_interval>>
    /\ UNCHANGED lifeVars
    /\ UNCHANGED worldVars
    /\ UNCHANGED <<reply, extVars>>

\* the while condition of subscribe(), evaluated when the consumer asks for the
\* next event or when a get timed out
SubPoll(s) ==
    /\ \/ sub[s] = "yielded"
       \/ sub[s] = "waiting" /\ queue[s] = <<>>
    /\ IF IsSet(stopGen)
       THEN Finally(s)
       ELSE /\ sub' = [sub EXCEPT ![s] = "waiting"]
            /\ UNCHANGED <<subscribers, queue, recv, lost, regTick>>
    /\ UNCHANGED <<paused, tick_interval>>
    /\ UNCHANGED lifeVars
    /\ UNCHANGED worldVars
    /\ UNCHANGED <<reply, extVars>>

\* the consumer closes the generator: the finally block discards the queue
SubClose(s) ==
    /\ sub[s] \in {"created", "waiting", "yielded"}
    /\ Finally(s)
    /\ UNCHANGED <<paused, tick_interval>>
    /\ UNCHANGED lifeVars
    /\ UNCHANGED worldVars
    /\ UNCHANGED <<reply, extVars>>

\* ------------------------------------------- a history store used on its own
Objs == 1..MaxObjs

\* TickRecord(tick=t, snapshot=o): the record holds a reference to the object o
TickRecord(t, o) == [tick |-> t, snapshot |-> o]

\* store.record_tick(TickRecord(tick=t, snapshot=o))
RecordTick(t, o) ==
    /\ Len(calls) < MaxCalls
    /\ store' = HistoryRecordTick(store, TickRecord(t, o))
    /\ calls' = Append(calls, [tick |-> t, snapshot |-> o, data |-> heap[o]])
    /\ UNCHANGED heap
    /\ UNCHANGED <<sourceVars, serverVars, auxVars>>

\* the owner of an object changes its data in place, as _update_entities does
\* with the entity objects the snapshots it recorded refer to
UpdateInPlace(o, v) ==
    /\ v # heap[o]
    /\ heap' = [heap EXCEPT ![o] = v]
    /\ UNCHANGED <<store, calls>>
    /\ UNCHANGED <<sourceVars, serverVars, auxVars>>

\* store.clear()
StoreClear ==
    /\ store # <<>>
    /\ store' = HistoryClear
    /\ calls' = <<>>
    /\ UNCHANGED heap
    /\ UNCHANGED <<sourceVars, serverVars, auxVars>>

\* ------------------------------------------------- HistoryCapturingSource
\* what subscribe_events does with an event of the wrapped source before it
\* decides whether to yield it: a tick event is recorded in the wrapper's store
HcRecord(event) ==
    IF event.type = "snapshot"
    THEN /\ hc_store' = HistoryRecordTick(hc_store, TickRecord(event.tick, event.tick))
         /\ hc_tick' = event.tick
    ELSE UNCHANGED <<hc_store, hc_tick>>

\* "if not self._paused or self._pending_step"
HcYields == ~hc_paused \/ hc_step

\* the wrapper's own part of send_command, before it delegates
HcSendCommand(command) ==
    /\ hc_paused' = CASE command = "pause" -> TRUE
                      [] command = "resume" -> FALSE
                      [] OTHER -> hc_paused
    /\ hc_step' = IF command = "step" THEN TRUE ELSE hc_step
    /\ hc_owed' = IF command = "step" THEN hc_owed + 1 ELSE hc_owed
    /\ UNCHANGED <<hc_tick, hc_store>>

\* ------------------------------------------------------ websocket sessions
\* a message of the server; the fields a message type does not carry are None
Msg(type, t, p, r) == [type |-> type, tick |-> t, is_paused |-> p, tick_range |-> r]

\* build_history_info()
HistoryInfo(p, records) == Msg("history_info", None, Some(p), HistoryGetTickRange(records))

ErrorMsg == Msg("error", None, None, None)

SeekComplete(n) == Msg("seek_complete", Some(n), None, None)

TickMsg(t) == Msg("tick", Some(t), None, None)

\* a JSON value given as a tick: an integer or a string that is no number
IntArg(n) == [kind |-> "int", num |-> n]

StrArg == [kind |-> "str", num |-> 0]

\* a JSON message of a client: its "command" field if it has one, its
\* arguments, and whether they are inside "params" or fields of the message
ClientMsg(c, inParams, tps, t) == [command |-> c, params |-> inParams, tps |-> tps, tick |-> t]

ClientMessages ==
    {ClientMsg(Some(c), FALSE, None, None) :
        c \in {"pause", "resume", "step", "get_history_info", "bogus", "subscribe"}}
    \cup {ClientMsg(None, FALSE, None, None)}
    \cup {ClientMsg(Some("set_speed"), p, Some(x), None) :
            p \in BOOLEAN, x \in {TpsFloat(2, 1), TpsStr, TpsInt(0), TpsInt(-1)}}
    \cup {ClientMsg(Some("seek"), p, None, Some(k)) :
            p \in BOOLEAN, k \in {IntArg(n) : n \in -1..MaxTick} \cup {StrArg}}

\* websocket_endpoint up to asyncio.wait: accept, send history_info (the
\* wrapper has no visualization_config, so no config message), create both tasks
Accept(c) ==
    /\ connected
    /\ ws[c] = "none"
    /\ ws' = [ws EXCEPT ![c] = "open"]
    /\ rtask' = [rtask EXCEPT ![c] = "ready"]
    /\ wtask' = [wtask EXCEPT ![c] = "created"]
    /\ peer' = [peer EXCEPT ![c] = TRUE]
    /\ out' = [out EXCEPT ![c] = <<HistoryInfo(hc_paused, hc_store)>>]
    /\ UNCHANGED <<cmds, rx>>
    /\ UNCHANGED hcVars
    /\ UNCHANGED <<sourceVars, storeVars, auxVars>>

\* the branches of receive_commands that do not dispatch to the source
NoDispatch == UNCHANGED <<paused, tick_interval, lifeVars, worldVars, subVars>>

\* one pass of the loop of receive_commands: a message is received, parsed
\* into ClientCommand (fields other than command and params are ignored),
\* handled, and answered
ReceiveJson(c, msg) ==
    /\ ws[c] = "open"
    /\ rtask[c] = "ready"
    /\ peer[c]
    /\ cmds' = cmds + 1
    /\ rx' = Some([session |-> c, msg |-> msg])
    /\ CASE msg.command = None ->
              \* ClientCommand(**data) raises, "except Exception" answers
              /\ out' = [out EXCEPT ![c] = Append(@, ErrorMsg)]
              /\ UNCHANGED hcVars
              /\ NoDispatch
         [] msg.command = Some("get_history_info") ->
              /\ out' = [out EXCEPT ![c] = Append(@, HistoryInfo(hc_paused, hc_store))]
              /\ UNCHANGED hcVars
              /\ NoDispatch
         [] msg.command = Some("seek") ->
              LET arg == IF msg.params /\ msg.tick # None THEN msg.tick[1] ELSE IntArg(0)
              IN /\ IF arg.kind = "str"
                    THEN \* int(tick) raises, "except Exception" answers
                         /\ out' = [out EXCEPT ![c] = Append(@, ErrorMsg)]
                         /\ UNCHANGED hcVars
                    ELSE \* HistoryCapturingSource.seek
                         /\ hc_paused' = TRUE
                         /\ UNCHANGED <<hc_step, hc_owed, hc_store>>
                         /\ IF HistoryGetSnapshot(hc_store, arg.num) # None
                            THEN /\ hc_tick' = arg.num
                                 /\ out' = [out EXCEPT ![c] =
                                              @ \o <<SeekComplete(arg.num),
                                                     HistoryInfo(TRUE, hc_store)>>]
                            ELSE /\ UNCHANGED hc_tick
                                 /\ out' = [out EXCEPT ![c] = Append(@, ErrorMsg)]
                 /\ NoDispatch
         [] OTHER ->
              \* "Standard command": source.send_command(cmd.command, **cmd.params)
              LET command == msg.command[1]
                  tps == IF msg.params /\ msg.tps # None THEN msg.tps[1] ELSE TpsDefault
              IN /\ HcSendCommand(command)
                 /\ SendCommand(command, tps)
                 /\ out' = [out EXCEPT ![c] =
                              IF command \in {"pause", "resume"}
                              THEN Append(@, HistoryInfo(hc_paused', hc_store))
                              ELSE @]
    /\ UNCHANGED <<ws, rtask, wtask, peer>>
    /\ UNCHANGED <<reply, storeVars, auxVars>>

\* the same, for at most MaxCmds messages in all
Receive(c, msg) == cmds < MaxCmds /\ ReceiveJson(c, msg)

\* the client goes away
PeerClose(c) ==
    /\ ws[c] = "open"
    /\ peer[c]
    /\ peer' = [peer EXCEPT ![c] = FALSE]
    /\ UNCHANGED <<ws, rtask, wtask, out, cmds, rx>>
    /\ UNCHANGED hcVars
    /\ UNCHANGED <<sourceVars, storeVars, auxVars>>

\* receive_json raises WebSocketDisconnect: receive_commands returns
ReaderDisconnected(c) ==
    /\ rtask[c] = "ready"
    /\ ~peer[c]
    /\ rtask' = [rtask EXCEPT ![c] = "done"]
    /\ UNCHANGED <<ws, wtask, peer, out, cmds, rx>>
    /\ UNCHANGED hcVars
    /\ UNCHANGED <<sourceVars, storeVars, auxVars>>

\* send_events starts: the wrapper's generator and, inside it, the source's
\* generator run to the first queue.get()
WriterStart(c) ==
    /\ ws[c] = "open"
    /\ wtask[c] = "created"
    /\ SubEnter(c)
    /\ wtask' = [wtask EXCEPT ![c] = IF stopGen = 0 \/ IsSet(stopGen) THEN "done" ELSE "running"]
    /\ UNCHANGED recv
    /\ UNCHANGED <<ws, rtask, peer, out, cmds, rx>>
    /\ UNCHANGED hcVars
    /\ UNCHANGED <<paused, tick_interval, lifeVars, worldVars, reply, storeVars, auxVars>>

\* queue.get() returns an event: the wrapper records it and yields it unless
\* paused, send_events calls send_json for a tick event; an event that is not
\* passed on or not sent leads back to the while condition of subscribe()
WriterStep(c) ==
    /\ wtask[c] = "running"
    /\ sub[c] = "waiting"
    /\ queue[c] # <<>>
    /\ LET event == Head(queue[c])
           sent == HcYields /\ event.type = "snapshot"
       IN /\ HcRecord(event)
          /\ hc_step' = IF HcYields THEN FALSE ELSE hc_step
          /\ hc_owed' = IF hc_owed > 0 THEN hc_owed - 1 ELSE 0
          /\ UNCHANGED hc_paused
          /\ IF sent
             THEN /\ sub' = [sub EXCEPT ![c] = "yielded"]
                  /\ queue' = [queue EXCEPT ![c] = Tail(@)]
                  /\ out' = [out EXCEPT ![c] = IF peer[c] THEN Append(@, TickMsg(event.tick)) ELSE @]
                  /\ UNCHANGED <<subscribers, recv, lost, regTick, wtask>>
             ELSE IF IsSet(stopGen)
                  THEN /\ Finally(c)
                       /\ wtask' = [wtask EXCEPT ![c] = "done"]
                       /\ UNCHANGED out
                  ELSE /\ queue' = [queue EXCEPT ![c] = Tail(@)]
                       /\ UNCHANGED <<sub, subscribers, recv, lost, regTick, wtask, out>>
    /\ UNCHANGED <<ws, rtask, peer, cmds, rx>>
    /\ UNCHANGED <<paused, tick_interval, lifeVars, worldVars, reply, storeVars, auxVars>>

\* send_json returns and send_events asks for the next event
WriterSent(c) ==
    /\ wtask[c] = "running"
    /\ sub[c] = "yielded"
    /\ peer[c]
    /\ IF IsSet(stopGen)
       THEN /\ Finally(c)
            /\ wtask' = [wtask EXCEPT ![c] = "done"]
       ELSE /\ sub' = [sub EXCEPT ![c] = "waiting"]
            /\ UNCHANGED <<subscribers, queue, recv, lost, regTick, wtask>>
    /\ UNCHANGED <<ws, rtask, peer, out, cmds, rx>>
    /\ UNCHANGED hcVars
    /\ UNCHANGED <<paused, tick_interval, lifeVars, worldVars, reply, storeVars, auxVars>>

\* send_json raises WebSocketDisconnect: send_events returns; nothing closes
\* the generators, which stay suspended at their yield
WriterSendFails(c) ==
    /\ wtask[c] = "running"
    /\ sub[c] = "yielded"
    /\ ~peer[c]
    /\ wtask' = [wtask EXCEPT ![c] = "done"]
    /\ UNCHANGED <<ws, rtask, peer, out, cmds, rx>>
    /\ UNCHANGED hcVars
    /\ UNCHANGED <<sourceVars, storeVars, auxVars>>

\* asyncio.wait returns because a task is done; the pending task is cancelled
\* and awaited, the endpoint returns.  CancelledError reaches the writer where
\* it is suspended: in queue.get() it passes through the finally block of
\* subscribe(), in send_json it leaves the generators suspended at their
\* yield, before its first step it finds no generator at all
SessionEnd(c) ==
    /\ ws[c] = "open"
    /\ rtask[c] = "done" \/ wtask[c] = "done"
    /\ ws' = [ws EXCEPT ![c] = "closed"]
    /\ rtask' = [rtask EXCEPT ![c] = "done"]
    /\ wtask' = [wtask EXCEPT ![c] = "done"]
    /\ IF wtask[c] = "running" /\ sub[c] = "waiting"
       THEN Finally(c)
       ELSE UNCHANGED subVars
    /\ UNCHANGED <<peer, out, cmds, rx>>
    /\ UNCHANGED hcVars
    /\ UNCHANGED <<paused, tick_interval, lifeVars, worldVars, reply, storeVars, auxVars>>

\* the generators nobody closed are finalized when they are collected: the
\* event loop runs their aclose(), the finally block of subscribe() runs
GenFinalize(c) ==
    /\ wtask[c] = "done"
    /\ sub[c] = "yielded"
    /\ Finally(c)
    /\ UNCHANGED sessVars
    /\ UNCHANGED hcVars
    /\ UNCHANGED <<paused, tick_interval, lifeVars, worldVars, reply, storeVars, auxVars>>

\* ---------------------------------------------------------- specification
InitProgram ==
    /\ connected = FALSE
    /\ paused = FALSE
    /\ tick_interval = <<1, 1>>
    /\ stopGen = 0
    /\ stopSet = {}
    /\ loop_task = 0
    /\ drv = [d \in Drivers |-> [pc |-> "none", ev |-> 0]]
    /\ joining = 0
    /\ tick = 0
    /\ entities = <<>>
    /\ data = <<>>
    /\ history = <<>>
    /\ errors = <<>>
    /\ spans = <<>>
    /\ subscribers = {}
    /\ sub = [s \in Subs |-> "new"]
    /\ queue = [s \in Subs |-> <<>>]
    /\ recv = [s \in Subs |-> <<>>]
    /\ lost = [s \in Subs |-> FALSE]
    /\ regTick = [s \in Subs |-> 0]
    /\ reply = None
    /\ store = <<>>
    /\ heap = [o \in Objs |-> 0]
    /\ calls = <<>>
    /\ hc_paused = FALSE
    /\ hc_tick = 0
    /\ hc_step = FALSE
    /\ hc_owed = 0
    /\ hc_store = <<>>
    /\ ws = [c \in Subs |-> "none"]
    /\ rtask = [c \in Subs |-> "none"]
    /\ wtask = [c \in Subs |-> "none"]
    /\ peer = [c \in Subs |-> FALSE]
    /\ out = [c \in Subs |-> <<>>]
    /\ cmds = 0
    /\ rx = None

\* no compute_entity_lifecycles call is made
InitSource ==
    /\ InitProgram
    /\ lifecycle = None

\* nothing but the tick-loop source, its server and the store of SpecStore is in use
Init ==
    /\ InitSource
    /\ engine = None
    /\ ckstore = None
    /\ remote = None
    /\ fstore = None
    /\ replay = None

\* ------------------------------------------------------------ delta engine
\* the component keys (type_short) in lexicographic order
KeyOrder == <<"A", "B">>

\* the fully qualified names a component of each key can carry
TypeNames(k) == IF k = "A" THEN {"m.A", "n.A"} ELSE {"m.B"}

\* the name made up for a component whose full name is not known
UnknownName(k) == IF k = "A" THEN "unknown.A" ELSE "unknown.B"

ComponentSnapshot(n, k, d) == [type_name |-> n, type_short |-> k, data |-> d]

EntitySnapshot(i, cs) == [id |-> i, components |-> cs]

\* a WorldSnapshot as the engine sees it: its tick and its entities
Snapshot(t, es) == [tick |-> t, entities |-> es]

ComponentDiff(k, old, new) == [component_type |-> k, old_value |-> old, new_value |-> new]

TickDelta(t, sp, de, mo) == [tick |-> t, spawned |-> sp, destroyed |-> de, modified |-> mo]

\* the ids of a list of entities
IdsOf(es) == {es[i].id : i \in DOMAIN es}

\* the entity of that id in a list that holds it
EntityOf(es, i) == es[CHOOSE j \in DOMAIN es : es[j].id = i]

\* the components of an entity indexed by type_short: the data of key k, or none
DataOf(cs, k) ==
    LET at == {j \in DOMAIN cs : cs[j].type_short = k}
    IN IF at = {} THEN None ELSE Some(cs[CHOOSE j \in at : \A x \in at : x <= j].data)

\* the per-entity component diff: the keys of both sides in ascending order,
\* one diff for each key whose data payloads differ
DiffComponents(old, new) ==
    LET all == [j \in DOMAIN KeyOrder |->
                  ComponentDiff(KeyOrder[j], DataOf(old, KeyOrder[j]), DataOf(new, KeyOrder[j]))]
    IN SelectSeq(all, LAMBDA d : d.old_value # d.new_value)

\* the ids of a list of entities, in the order of the list
RECURSIVE IdSeq(_)
IdSeq(es) == IF es = <<>> THEN <<>> ELSE <<Head(es).id>> \o IdSeq(Tail(es))

\* diff(old, new)
Diff(old, new) ==
    LET both == {i \in IdsOf(old.entities) \cap IdsOf(new.entities) :
                    DiffComponents(EntityOf(old.entities, i).components,
                                   EntityOf(new.entities, i).components) # <<>>}
    IN TickDelta(new.tick,
                 SelectSeq(new.entities, LAMBDA e : e.id \notin IdsOf(old.entities)),
                 IdSeq(SelectSeq(old.entities, LAMBDA e : e.id \notin IdsOf(new.entities))),
                 [i \in both |-> DiffComponents(EntityOf(old.entities, i).components,
                                                EntityOf(new.entities, i).components)])

\* the components of an entity after its diffs were applied in order: an added
\* component goes to the end, a replaced one keeps its place and its name
RECURSIVE PatchComponents(_, _)
PatchComponents(cs, diffs) ==
    IF diffs = <<>> THEN cs
    ELSE LET d == Head(diffs)
             k == d.component_type
             patched ==
                 IF d.new_value = None
                 THEN SelectSeq(cs, LAMBDA c : c.type_short # k)
                 ELSE IF DataOf(cs, k) = None
                 THEN Append(cs, ComponentSnapshot(UnknownName(k), k, d.new_value[1]))
                 ELSE [j \in DOMAIN cs |->
                         IF cs[j].type_short = k
                         THEN ComponentSnapshot(cs[j].type_name, k, d.new_value[1])
                         ELSE cs[j]]
         IN PatchComponents(patched, Tail(diffs))

\* apply(snapshot, delta)
Apply(snapshot, delta) ==
    LET kept == SelectSeq(snapshot.entities, LAMBDA e : e.id \notin
                              {delta.destroyed[j] : j \in DOMAIN delta.destroyed})
        patched == [j \in DOMAIN kept |->
                      IF kept[j].id \in DOMAIN delta.modified
                      THEN EntitySnapshot(kept[j].id,
                               PatchComponents(kept[j].components, delta.modified[kept[j].id]))
                      ELSE kept[j]]
    IN Snapshot(delta.tick, patched \o delta.spawned)

\* the component lists given to the engine: each key absent or present once
ComponentChoices(k) ==
    {<<>>} \cup {<<ComponentSnapshot(n, k, d)>> : n \in TypeNames(k), d \in 0..MaxPayload}

ComponentLists == {a \o b : a \in ComponentChoices("A"), b \in ComponentChoices("B")}

EntityChoices(i) == {EntitySnapshot(i, cs) : cs \in ComponentLists}

\* the entity lists given to the engine: every id at most once, in any order
RECURSIVE EntityLists(_)
EntityLists(ids) ==
    {<<>>} \cup UNION {{<<e>> \o rest : e \in EntityChoices(i), rest \in EntityLists(ids \ {i})}
                          : i \in ids}

\* the engine is given two snapshots
InitDelta ==
    /\ InitSource
    /\ engine \in {[old |-> Snapshot(0, a), new |-> Snapshot(1, b),
                    delta |-> None, out |-> None]
                      : a \in EntityLists(1..MaxEntityId), b \in EntityLists(1..MaxEntityId)}
    /\ ckstore = None
    /\ remote = None
    /\ fstore = None
    /\ replay = None

\* the delta between the two snapshots is computed
RunDiff ==
    /\ engine # None
    /\ engine.delta = None
    /\ engine' = [engine EXCEPT !.delta = Some(Diff(engine.old, engine.new))]
    /\ UNCHANGED <<programVars, ckstore, remote, fstore, replay>>

\* the delta is applied to the first snapshot
RunApply ==
    /\ engine # None
    /\ engine.delta # None
    /\ engine.out = None
    /\ engine' = [engine EXCEPT !.out = Some(Apply(engine.old, engine.delta[1]))]
    /\ UNCHANGED <<programVars, ckstore, remote, fstore, replay>>

NextDelta ==
    \/ RunDiff
    \/ RunApply

SpecDelta == InitDelta /\ [][NextDelta]_vars

\* -------------------------------------------- checkpoint + delta history store
\* an entry of the store: a checkpoint holds a snapshot, a delta a TickDelta
StoreEntry(t, k, v) == [tick |-> t, kind |-> k, value |-> v]

\* the ticks the store retains
StoredTicks(es) == {es[j].tick : j \in DOMAIN es}

\* the oldest entry is dropped and nothing else changes
EvictOnly(es) == Tail(es)

\* the oldest entry is dropped; a delta that followed a dropped checkpoint
\* becomes the checkpoint apply(C, delta)
EvictPromote(es) ==
    LET rest == Tail(es)
    IN IF rest # <<>> /\ Head(es).kind = "checkpoint" /\ Head(rest).kind = "delta"
       THEN <<StoreEntry(Head(rest).tick, "checkpoint",
                         Apply(Head(es).value, Head(rest).value))>> \o Tail(rest)
       ELSE rest

\* evict oldest until size <= max_ticks
RECURSIVE EvictToCapacity(_)
EvictToCapacity(es) ==
    IF Len(es) <= MaxHistory THEN es ELSE EvictToCapacity(EvictPromote(es))

\* record_tick(snapshot) of the checkpoint + delta store
CheckpointRecordTick(st, snapshot) ==
    IF snapshot.tick \in StoredTicks(st.entries) THEN st
    ELSE LET entry == IF st.last = None \/ snapshot.tick % CheckpointInterval = 0
                      THEN StoreEntry(snapshot.tick, "checkpoint", snapshot)
                      ELSE StoreEntry(snapshot.tick, "delta", Diff(st.last[1], snapshot))
         IN [st EXCEPT !.entries = EvictToCapacity(Append(st.entries, entry)),
                       !.last = Some(snapshot)]

\* the deltas of the entries j+1..i applied in order to a snapshot
RECURSIVE ApplyForward(_, _, _, _)
ApplyForward(es, j, i, snapshot) ==
    IF j = i THEN snapshot ELSE ApplyForward(es, j + 1, i, Apply(snapshot, es[j + 1].value))

\* get_snapshot(tick) of the checkpoint + delta store
CheckpointGetSnapshot(es, t) ==
    IF t \notin StoredTicks(es) THEN None
    ELSE LET i == CHOOSE j \in DOMAIN es : es[j].tick = t
             cs == {j \in 1..i : es[j].kind = "checkpoint"}
         IN IF cs = {} THEN None
            ELSE LET c == CHOOSE j \in cs : \A x \in cs : x <= j
                 IN Some(ApplyForward(es, c, i, es[c].value))

\* the entity lists recorded into the store
StoreWorlds ==
    LET A(d) == ComponentSnapshot("m.A", "A", d)
        B(d) == ComponentSnapshot("m.B", "B", d)
    IN {<<>>,
        <<EntitySnapshot(1, <<>>)>>,
        <<EntitySnapshot(1, <<A(0)>>)>>,
        <<EntitySnapshot(1, <<A(MaxPayload)>>)>>,
        <<EntitySnapshot(1, <<A(0), B(0)>>)>>,
        <<EntitySnapshot(1, <<A(0)>>), EntitySnapshot(MaxEntityId, <<>>)>>,
        <<EntitySnapshot(MaxEntityId, <<>>)>>}

\* a new, empty store
InitCheckpoint ==
    /\ InitSource
    /\ ckstore = [entries |-> <<>>, last |-> None, recorded |-> <<>>]
    /\ engine = None
    /\ remote = None
    /\ fstore = None
    /\ replay = None

\* record_tick(snapshot) is called; recorded keeps the calls that were not
\* re-recordings of a retained tick
CheckpointRecord(t, es) ==
    /\ ckstore # None
    /\ Len(ckstore.recorded) < MaxCheckpointCalls
    /\ ckstore' = [CheckpointRecordTick(ckstore, Snapshot(t, es)) EXCEPT
                     !.recorded = IF t \in StoredTicks(ckstore.entries)
                                  THEN ckstore.recorded
                                  ELSE Append(ckstore.recorded, Snapshot(t, es))]
    /\ UNCHANGED <<programVars, engine, remote, fstore, replay>>

NextCheckpoint ==
    \E t \in 0..MaxCheckpointTick, es \in StoreWorlds : CheckpointRecord(t, es)

SpecCheckpoint == InitCheckpoint /\ [][NextCheckpoint]_vars

\* ------------------------------------------------------- RemoteWorldSource
\* variant: a buffer without maxlen, nothing is ever discarded
DequeAppendUnbounded(buffer, event) == Append(buffer, event)

\* deque(maxlen=buffer_size).append: a full deque discards its oldest item
DequeAppend(buffer, event) ==
    IF Len(buffer) >= BufferSize THEN Append(Tail(buffer), event) ELSE Append(buffer, event)

\* variant: the buffer is emptied newest first
DrainNewestFirst(r) ==
    IF ~r.connected THEN r
    ELSE [r EXCEPT !.queue = r.queue \o [i \in DOMAIN r.buffer |->
                                            r.buffer[Len(r.buffer) + 1 - i]],
                   !.buffer = <<>>,
                   !.drained = Len(r.buffer)]

\* _drain_buffer: without an event queue nothing happens; otherwise every
\* buffered event goes to the queue, oldest first (a put on the unbounded queue
\* never waits); drained is its count of them
DrainBuffer(r) ==
    IF ~r.connected THEN r
    ELSE [r EXCEPT !.queue = r.queue \o r.buffer, !.buffer = <<>>, !.drained = Len(r.buffer)]

\* a new source: no connection, no event queue yet, an empty buffer
InitRemote ==
    /\ InitSource
    /\ remote = [connected |-> FALSE, paused |-> FALSE, buffer |-> <<>>, queue |-> <<>>,
                 drained |-> 0, next |-> 1, taken |-> <<>>, arrived |-> 0, spilled |-> FALSE]
    /\ engine = None
    /\ ckstore = None
    /\ fstore = None
    /\ replay = None

\* connect(): the event queue is created and the listener started
RemoteConnect ==
    /\ remote # None
    /\ ~remote.connected
    /\ remote' = [remote EXCEPT !.connected = TRUE, !.queue = <<>>]
    /\ UNCHANGED <<programVars, engine, ckstore, fstore, replay>>

\* _handle_message for a tick message, the next one the server sends; arrived
\* counts the events received during the present pause, spilled tells whether
\* some pause has seen buffer_size of them or more
RemoteHandleTick ==
    /\ remote # None
    /\ remote.connected
    /\ remote.next <= MaxRemoteEvents
    /\ remote' = IF remote.paused
                 THEN [remote EXCEPT !.buffer = DequeAppend(remote.buffer, remote.next),
                                     !.next = @ + 1,
                                     !.arrived = @ + 1,
                                     !.spilled = @ \/ remote.arrived + 1 >= BufferSize]
                 ELSE [remote EXCEPT !.queue = Append(remote.queue, remote.next),
                                     !.next = @ + 1]
    /\ UNCHANGED <<programVars, engine, ckstore, fstore, replay>>

\* send_command(command)
RemoteSendCommand(command) ==
    /\ remote # None
    /\ remote' =
         CASE command = "pause" ->
                [remote EXCEPT !.paused = TRUE,
                               !.arrived = IF remote.paused THEN @ ELSE 0]
           [] command = "resume" ->
                DrainBuffer([remote EXCEPT !.paused = FALSE, !.arrived = 0])
           [] command = "step" ->
                IF remote.paused /\ remote.buffer # <<>>
                THEN [remote EXCEPT !.buffer = Tail(@),
                                    !.queue = IF remote.connected
                                              THEN Append(@, Head(remote.buffer)) ELSE @]
                ELSE remote
           [] OTHER -> remote
    /\ UNCHANGED <<programVars, engine, ckstore, fstore, replay>>

\* subscribe_events: the consumer is handed the next event of the queue
RemoteGet ==
    /\ remote # None
    /\ remote.connected
    /\ remote.queue # <<>>
    /\ remote' = [remote EXCEPT !.queue = Tail(@), !.taken = Append(@, Head(remote.queue))]
    /\ UNCHANGED <<programVars, engine, ckstore, fstore, replay>>

NextRemote ==
    \/ RemoteConnect
    \/ RemoteHandleTick
    \/ \E command \in {"pause", "resume", "step", "set_tick_rate"} : RemoteSendCommand(command)
    \/ RemoteGet

SpecRemote == InitRemote /\ [][NextRemote]_vars

\* ----------------------------------- RemoteWorldSource: connection retries
\* the constructor arguments of a source; delays are whole seconds
RetryConfigs ==
    [reconnect_attempts : 0..MaxReconnectAttempts,
     reconnect_delay : 1..MaxReconnectDelay,
     max_reconnect_delay : 1..MaxReconnectDelay]

\* "delay = min(delay * 2, self._max_reconnect_delay)"
NextDelay(delay, cap) == Min(delay * 2, cap)

\* "self._connection_attempt += 1", then the test of the limit
AttemptsExhausted(r) ==
    r.cfg.reconnect_attempts >= 0 /\ r.connection_attempt + 1 >= r.cfg.reconnect_attempts

\* _establish_connection is entered by caller: "delay = self._reconnect_delay",
\* the while condition, and websockets.connect is awaited; made counts the
\* attempts of this call, slept lists its sleeps
EnterEstablish(r, caller) ==
    IF r.connected
    THEN [r EXCEPT !.pc = "connecting", !.caller = caller, !.delay = r.cfg.reconnect_delay,
                   !.made = 1, !.slept = <<>>]
    ELSE [r EXCEPT !.pc = "returned", !.caller = caller, !.delay = r.cfg.reconnect_delay,
                   !.made = 0, !.slept = <<>>]

\* a new source with some constructor arguments
InitRetry ==
    /\ InitSource
    /\ \E cfg \in RetryConfigs :
           remote = [cfg |-> cfg, connected |-> FALSE, ws |-> FALSE, connection_attempt |-> 0,
                     pc |-> "idle", caller |-> "none", delay |-> cfg.reconnect_delay,
                     made |-> 0, slept |-> <<>>]
    /\ engine = None
    /\ ckstore = None
    /\ fstore = None
    /\ replay = None

RetryStep(r) == remote' = r /\ UNCHANGED <<programVars, engine, ckstore, fstore, replay>>

\* connect() up to its first await in _establish_connection
RetryConnect ==
    /\ remote.pc \in {"idle", "raised"}
    /\ RetryStep(EnterEstablish([remote EXCEPT !.connected = TRUE, !.connection_attempt = 0],
                                "connect"))

\* websockets.connect raises: the attempt is counted, then ConnectionError is
\* raised or the loop sleeps
RetryAttemptFails ==
    /\ remote.pc = "connecting"
    /\ RetryStep(IF AttemptsExhausted(remote)
                 THEN [remote EXCEPT !.connection_attempt = @ + 1, !.pc = "raised"]
                 ELSE [remote EXCEPT !.connection_attempt = @ + 1, !.pc = "sleeping",
                                     !.slept = Append(@, remote.delay)])

\* websockets.connect returns a connection
RetryAttemptSucceeds ==
    /\ remote.pc = "connecting"
    /\ RetryStep([remote EXCEPT !.ws = TRUE, !.connection_attempt = 0, !.pc = "returned"])

\* the sleep ends: the next delay is computed, the while condition is tested
\* and the next attempt is started or the function returns
RetryWake ==
    /\ remote.pc = "sleeping"
    /\ RetryStep(IF remote.connected
                 THEN [remote EXCEPT !.delay = NextDelay(@, remote.cfg.max_reconnect_delay),
                                     !.pc = "connecting", !.made = @ + 1]
                 ELSE [remote EXCEPT !.delay = NextDelay(@, remote.cfg.max_reconnect_delay),
                                     !.pc = "returned"])

\* _listen_loop: the connection is lost while the source is connected, and the
\* listener calls _establish_connection
RetryConnectionLost ==
    /\ remote.pc = "returned"
    /\ remote.ws
    /\ remote.connected
    /\ RetryStep(EnterEstablish(remote, "listen"))

\* disconnect(): the flag is cleared and the listener task is cancelled, with
\* the retry loop it may be in; a retry loop inside connect() is another task
\* and is left to see the flag
RetryDisconnect ==
    /\ remote.connected
    /\ RetryStep(IF remote.caller = "listen" \/ remote.pc \in {"returned", "raised"}
                 THEN [remote EXCEPT !.connected = FALSE, !.ws = FALSE, !.pc = "idle"]
                 ELSE [remote EXCEPT !.connected = FALSE])

\* connect() goes on after _establish_connection returned on a cleared flag:
\* the listener it creates ends at once
RetryAbandoned ==
    /\ remote.pc = "returned"
    /\ ~remote.connected
    /\ RetryStep([remote EXCEPT !.pc = "idle"])

NextRetry ==
    \/ RetryConnect
    \/ RetryAttemptFails
    \/ RetryAttemptSucceeds
    \/ RetryWake
    \/ RetryConnectionLost
    \/ RetryDisconnect
    \/ RetryAbandoned

SpecRetry == InitRetry /\ [][NextRetry]_vars

\* ------------------------------------------------------- FileHistoryStore
\* The file is a sequence of lines; an offset is the number of lines before
\* it.  fstore holds the file on disk, one FileHistoryStore instance at a
\* time (handle = "none" when none is open), the outcome of the last call,
\* and two ghosts: the records written since the file was last truncated,
\* and whether only record_tick was called on the writable instances since.
FileTicks == 0..MaxFileTick

\* snapshot payloads a TickRecord carries: a JSON array, or a Python tuple
\* (model_dump() renders WorldSnapshot.archetypes as tuples)
FilePayloads == {[kind |-> k, n |-> n] : k \in {"list", "tuple"}, n \in 0..MaxPayload}

FileRecords == {TickRecord(t, v) : t \in FileTicks, v \in FilePayloads}

\* json.dumps: a tuple is written as an array
JsonDumps(record) ==
    [tick |-> record.tick, snapshot |-> [kind |-> "list", n |-> record.snapshot.n]]

\* json.loads + TickRecord.from_dict
JsonLoads(line) == TickRecord(line.tick, line.snapshot)

\* a line that json.loads rejects
Malformed == [tick |-> -1, snapshot |-> [kind |-> "list", n |-> 0]]

NoIndex == [t \in FileTicks |-> -1]

IndexedTicks(index) == {t \in FileTicks : index[t] >= 0}

LinesOf(disk, t) == {i \in DOMAIN disk : disk[i] # Malformed /\ disk[i].tick = t}

FirstOffsets(disk) ==
    [t \in FileTicks |->
        IF LinesOf(disk, t) = {} THEN -1
        ELSE (CHOOSE i \in LinesOf(disk, t) : \A j \in LinesOf(disk, t) : i <= j) - 1]

\* _build_index: the scan assigns _index[tick] at every line, the last stays
BuildOffsets(disk) ==
    [t \in FileTicks |->
        IF LinesOf(disk, t) = {} THEN -1
        ELSE (CHOOSE i \in LinesOf(disk, t) : \A j \in LinesOf(disk, t) : j <= i) - 1]

BuildRange(disk) ==
    LET ts == IndexedTicks(BuildOffsets(disk))
    IN  IF ts = {} THEN None
        ELSE <<CHOOSE t \in ts : \A u \in ts : t <= u,
               CHOOSE t \in ts : \A u \in ts : u <= t>>

tick_count(st) == Cardinality(IndexedTicks(st.index))

Outcome(st, r, v) == [st EXCEPT !.raised = r, !.result = v]

\* FileHistoryStore(path, mode): __init__ and _open_file
OpenFile(st, mode) ==
    IF mode = "r"
    THEN IF ~st.exists
         THEN [st EXCEPT !.raised = "FileNotFoundError", !.result = None]
         ELSE [st EXCEPT !.mode = "r", !.handle = "r",
                         !.index = BuildOffsets(st.disk),
                         !.tick_range = BuildRange(st.disk),
                         !.pos = Len(st.disk),
                         !.raised = "none", !.result = None]
    ELSE IF mode = "w"
    THEN [st EXCEPT !.mode = "w", !.handle = "w+", !.exists = TRUE,
                    !.disk = <<>>, !.index = NoIndex, !.tick_range = None,
                    !.pos = 0, !.raised = "none", !.result = None,
                    !.written = <<>>, !.recordsOnly = TRUE]
    ELSE [st EXCEPT !.mode = "a", !.handle = "a+", !.exists = TRUE,
                    !.index = BuildOffsets(st.disk),
                    !.tick_range = BuildRange(st.disk),
                    !.pos = Len(st.disk),
                    !.raised = "none", !.result = None]

RecordUnguarded(st, record, k) ==
    [st EXCEPT !.disk = Append(st.disk, JsonDumps(record)),
               !.written = Append(st.written, record),
               !.raised = "none", !.result = None]

\* record_tick(record).  k is where the text lands when the handle was opened
\* "w+"/"w" and a get_tick has moved it: 0 when the read-ahead had reached
\* the end of the file (the text is appended), else the line the write
\* damages; the index gets tell() in every case.
FileStoreRecordTick(st, record, k) ==
    IF st.mode = "r" THEN Outcome(st, "RuntimeError", None)
    ELSE IF st.handle = "none" THEN Outcome(st, "none", None)
    ELSE LET offset == st.pos
             line == JsonDumps(record)
             range == IF st.tick_range = None THEN <<record.tick, record.tick>>
                      ELSE <<Min(st.tick_range[1], record.tick),
                             Max(st.tick_range[2], record.tick)>>
             disk == IF k = 0 THEN Append(st.disk, line)
                     ELSE IF st.handle = "w" THEN [st.disk EXCEPT ![k] = line]
                     ELSE [st.disk EXCEPT ![k] = Malformed]
         IN  [st EXCEPT !.disk = disk,
                        !.index = [st.index EXCEPT ![record.tick] = offset],
                        !.tick_range = range,
                        !.pos = IF k = 0 THEN Len(disk) ELSE k,
                        !.written = Append(st.written, record),
                        !.raised = "none", !.result = None]

\* where a write may land, see FileStoreRecordTick
Landings(st) ==
    IF st.handle \in {"none", "r", "a+"} \/ st.pos >= Len(st.disk) THEN {0}
    ELSE IF st.handle = "w" THEN {st.pos + 1}
    ELSE {0} \cup ((st.pos + 1)..Len(st.disk))

\* get_tick(tick): what it returns
ReadTick(st, t) ==
    IF st.index[t] < 0 \/ st.handle = "none" THEN None
    ELSE IF st.index[t] >= Len(st.disk) THEN None
    ELSE IF st.disk[st.index[t] + 1] = Malformed THEN None
    ELSE Some(JsonLoads(st.disk[st.index[t] + 1]))

\* get_tick(tick): the call, with the seek and the readline it makes
GetTick(st, t) ==
    IF st.index[t] < 0 \/ st.handle = "none" THEN Outcome(st, "none", None)
    ELSE IF st.handle = "w"
    THEN [st EXCEPT !.pos = st.index[t], !.raised = "UnsupportedOperation",
                    !.result = None,
                    !.recordsOnly = FALSE]
    ELSE [st EXCEPT !.pos = Min(st.index[t] + 1, Len(st.disk)),
                    !.raised = "none", !.result = ReadTick(st, t),
                    !.recordsOnly = st.recordsOnly /\ st.mode = "r"]

\* clear()
ClearFile(st) ==
    IF st.mode = "r" THEN Outcome(st, "RuntimeError", None)
    ELSE [st EXCEPT !.handle = "w", !.exists = TRUE, !.disk = <<>>,
                    !.index = NoIndex, !.tick_range = None, !.pos = 0,
                    !.raised = "none", !.result = None,
                    !.written = <<>>, !.recordsOnly = FALSE]

\* close()
CloseFile(st) == [st EXCEPT !.handle = "none", !.raised = "none", !.result = None]

InitFile ==
    /\ InitSource
    /\ engine = None /\ ckstore = None /\ remote = None /\ replay = None
    /\ fstore = [exists |-> FALSE, disk |-> <<>>, mode |-> "none", handle |-> "none",
                 index |-> NoIndex, tick_range |-> None, pos |-> 0,
                 raised |-> "none", result |-> None,
                 written |-> <<>>, recordsOnly |-> TRUE]

FileStep(st) ==
    /\ fstore' = st
    /\ UNCHANGED <<programVars, engine, ckstore, remote, replay>>

FileOpen(mode) ==
    /\ fstore.handle = "none"
    /\ FileStep(OpenFile(fstore, mode))

FileRecordTick(record) ==
    /\ fstore.mode # "none"
    /\ fstore.mode = "r" \/ Len(fstore.written) < MaxFileLines
    /\ \E k \in Landings(fstore) : FileStep(FileStoreRecordTick(fstore, record, k))

FileGetTick(t) ==
    /\ fstore.mode # "none"
    /\ FileStep(GetTick(fstore, t))

FileClear ==
    /\ fstore.mode # "none"
    /\ FileStep(ClearFile(fstore))

FileClose ==
    /\ fstore.handle # "none"
    /\ FileStep(CloseFile(fstore))

NextFile ==
    \/ \E mode \in {"r", "a", "w"} : FileOpen(mode)
    \/ \E record \in FileRecords : FileRecordTick(record)
    \/ \E t \in FileTicks : FileGetTick(t)
    \/ FileClear
    \/ FileClose

SpecFile == InitFile /\ [][NextFile]_vars

\* ------------------------------------------------------ ReplayWorldSource
\* replay.store is the HistoryStore given to the source, which nothing
\* writes to during playback: the ticks it holds, in the order they were
\* recorded, and whether it is an InMemoryHistoryStore or a FileHistoryStore.
ReplayTicks == 0..MaxReplayTick

RECURSIVE TickOrders(_)
\* the sequences of n distinct ticks
TickOrders(n) ==
    IF n = 0 THEN {<<>>}
    ELSE {Append(p[1], p[2]) :
             p \in {q \in TickOrders(n - 1) \X ReplayTicks : q[2] \notin Range(q[1])}}

ReplayStores ==
    {[kind |-> "memory", ticks |-> s] : s \in UNION {TickOrders(n) : n \in 0..MaxReplayLen}}
    \cup
    {[kind |-> "file", ticks |-> s] :
        s \in {o \in UNION {TickOrders(n) : n \in 0..MaxReplayLen} :
                  \A i \in DOMAIN o : \A j \in DOMAIN o : i < j => o[i] < o[j]}}

\* self._store.get_tick_range(): InMemoryHistoryStore answers the first and
\* the last key recorded, FileHistoryStore the smallest and the largest
StoreTickRange(s) ==
    IF s.ticks = <<>> THEN None
    ELSE IF s.kind = "memory" THEN <<s.ticks[1], s.ticks[Len(s.ticks)]>>
    ELSE <<CHOOSE t \in Range(s.ticks) : \A u \in Range(s.ticks) : t <= u,
           CHOOSE t \in Range(s.ticks) : \A u \in Range(s.ticks) : u <= t>>

\* self._store.get_snapshot(tick) is not None
StoreHas(s, t) == t \in Range(s.ticks)

HistoryInfoEvent(range, is_paused) ==
    [type |-> "history_info", tick_range |-> range, is_paused |-> is_paused, tick |-> -1]

ReplayTickEvent(t) ==
    [type |-> "tick", tick_range |-> None, is_paused |-> FALSE, tick |-> t]

SeekCompleteEvent(t) ==
    [type |-> "seek_complete", tick_range |-> None, is_paused |-> FALSE, tick |-> t]

\* _advance_tick
AdvanceTick(r) ==
    IF r.current_tick = None THEN r
    ELSE LET tick_range == StoreTickRange(r.store)
             next_tick == r.current_tick[1] + 1
         IN  IF tick_range = None THEN r
             ELSE IF next_tick > tick_range[2]
             THEN [r EXCEPT !.paused = TRUE,
                            !.out = r.out \o <<HistoryInfoEvent(tick_range, TRUE)>>]
             ELSE IF ~StoreHas(r.store, next_tick)
             THEN [r EXCEPT !.current_tick = Some(next_tick)]
             ELSE [r EXCEPT !.current_tick = Some(next_tick),
                            !.out = r.out \o <<ReplayTickEvent(next_tick)>>]

\* _do_seek
DoSeek(r, t) ==
    LET tick_range == StoreTickRange(r.store)
    IN  IF tick_range = None THEN r
        ELSE LET target == Max(tick_range[1], Min(t, tick_range[2]))
             IN  IF ~StoreHas(r.store, target) THEN r
                 ELSE [r EXCEPT !.current_tick = Some(target),
                                !.out = r.out \o <<SeekCompleteEvent(target),
                                                   ReplayTickEvent(target)>>]

\* variant: the pending step is not taken back when it is served
ReplayTickLoopBodyKeepStep(r) ==
    IF r.pending_seek # None
    THEN [DoSeek(r, r.pending_seek[1]) EXCEPT !.pending_seek = None]
    ELSE IF r.pending_step \/ ~r.paused THEN AdvanceTick(r)
    ELSE r

\* _tick_loop_body
ReplayTickLoopBody(r) ==
    IF r.pending_seek # None
    THEN [DoSeek(r, r.pending_seek[1]) EXCEPT !.pending_seek = None]
    ELSE IF r.pending_step
    THEN AdvanceTick([r EXCEPT !.pending_step = FALSE])
    ELSE IF ~r.paused THEN AdvanceTick(r)
    ELSE r

InitReplay ==
    /\ InitSource
    /\ engine = None /\ ckstore = None /\ remote = None /\ fstore = None
    /\ \E s \in ReplayStores : \E a \in BOOLEAN :
          replay = [store |-> s, autoplay |-> a, connected |-> FALSE, running |-> FALSE,
                    started |-> FALSE,
                    paused |-> TRUE, current_tick |-> None,
                    pending_step |-> FALSE, pending_seek |-> None,
                    out |-> <<>>,
                    seek |-> [pc |-> "idle", tick |-> 0, ret |-> None]]

ReplayStep(r) ==
    /\ replay' = r
    /\ UNCHANGED <<programVars, engine, ckstore, remote, fstore>>

\* connect(): TickLoopSource.connect with the _on_connect of the replay source
ReplayConnect ==
    /\ ~replay.connected
    /\ LET tick_range == StoreTickRange(replay.store)
       IN  ReplayStep([replay EXCEPT
               !.connected = TRUE,
               !.running = TRUE,
               !.started = FALSE,
               !.current_tick = IF tick_range # None THEN Some(tick_range[1]) ELSE None,
               !.paused = ~replay.autoplay,
               !.out = <<>>])

\* disconnect(): the loop task is cancelled
ReplayDisconnect ==
    /\ replay.connected
    /\ ReplayStep([replay EXCEPT !.connected = FALSE, !.running = FALSE, !.out = <<>>])

\* one iteration of _run_loop
ReplayIterate ==
    /\ replay.running
    /\ ReplayStep(ReplayTickLoopBody([replay EXCEPT !.out = <<>>, !.started = TRUE]))

\* send_command("pause")
ReplayPause ==
    ReplayStep([replay EXCEPT
        !.paused = TRUE,
        !.out = <<HistoryInfoEvent(StoreTickRange(replay.store), TRUE)>>])

\* send_command("resume")
ReplayResume ==
    ReplayStep([replay EXCEPT
        !.paused = FALSE,
        !.out = <<HistoryInfoEvent(StoreTickRange(replay.store), FALSE)>>])

\* send_command("step")
ReplayStepCommand ==
    ReplayStep([replay EXCEPT
        !.pending_step = IF replay.paused THEN TRUE ELSE replay.pending_step,
        !.out = <<>>])

\* send_command("seek", tick=t)
ReplaySeekCommand(t) ==
    ReplayStep([replay EXCEPT !.paused = TRUE, !.pending_seek = Some(t), !.out = <<>>])

NextReplay ==
    \/ ReplayConnect
    \/ ReplayDisconnect
    \/ ReplayIterate
    \/ ReplayPause
    \/ ReplayResume
    \/ ReplayStepCommand
    \/ \E t \in -1..(MaxReplayTick + 1) : ReplaySeekCommand(t)

SpecReplay == InitReplay /\ [][NextReplay]_vars

\* seek(tick) is called: send_command("seek", tick=tick), then the call sleeps
ReplaySeekCall(t) ==
    /\ replay.connected
    /\ replay.seek.pc = "idle"
    /\ ReplayStep([replay EXCEPT !.paused = TRUE, !.pending_seek = Some(t), !.out = <<>>,
                                 !.seek = [pc |-> "sleeping", tick |-> t, ret |-> None]])

\* the sleep of seek() is over, whether or not the loop has iterated since:
\* the call returns get_snapshot(), None when that raises; a snapshot is
\* given by its tick.  A loop task that has not run yet makes its first
\* iteration before any sleep ends.
ReplaySeekReturn ==
    /\ replay.seek.pc = "sleeping"
    /\ replay.started
    /\ ReplayStep([replay EXCEPT
           !.out = <<>>,
           !.seek.pc = "idle",
           !.seek.ret = IF replay.current_tick # None
                           /\ StoreHas(replay.store, replay.current_tick[1])
                        THEN replay.current_tick ELSE None])

\* a source whose owner calls seek() while it plays
NextSeek ==
    \/ ReplayConnect
    \/ ReplayIterate
    \/ ReplayResume
    \/ \E t \in -1..(MaxReplayTick + 1) : ReplaySeekCall(t)
    \/ ReplaySeekReturn

SpecSeek == InitReplay /\ [][NextSeek]_vars

\* the loop iterates for as long as the source is connected
SpecReplayFair == SpecReplay /\ WF_vars(ReplayIterate)

\* ----------------------------------------------- compute_entity_lifecycles
\* lifecycle.store is the HistoryStore given to the function: its records in
\* the order they were recorded, each with the ids of the entities of its
\* snapshot; lifecycle.result is what the call returned, None before it.
LifecycleTicks == 0..MaxLifecycleTick

LifecycleIds == 1..MaxLifecycleId

LifecycleRecord(t, ids) == [tick |-> t, ids |-> ids]

RECURSIVE LifecycleRecords(_)
\* the sequences of n records of distinct ticks
LifecycleRecords(n) ==
    IF n = 0 THEN {<<>>}
    ELSE {Append(p[1], LifecycleRecord(p[2], p[3])) :
             p \in {q \in LifecycleRecords(n - 1) \X LifecycleTicks \X SUBSET LifecycleIds :
                       \A i \in DOMAIN q[1] : q[1][i].tick # q[2]}}

LifecycleStores ==
    {[kind |-> "memory", records |-> s] :
        s \in UNION {LifecycleRecords(n) : n \in 0..MaxLifecycleLen}}
    \cup
    {[kind |-> "file", records |-> s] :
        s \in {o \in UNION {LifecycleRecords(n) : n \in 0..MaxLifecycleLen} :
                  \A i \in DOMAIN o : \A j \in DOMAIN o : i < j => o[i].tick < o[j].tick}}

TicksOf(s) == {s.records[i].tick : i \in DOMAIN s.records}

\* store.get_tick_range()
LifecycleTickRange(s) ==
    StoreTickRange([kind |-> s.kind, ticks |-> [i \in DOMAIN s.records |-> s.records[i].tick]])

\* the ids of store.get_snapshot(t)["entities"], for a tick the store holds
IdsAt(s, t) == (CHOOSE r \in Range(s.records) : r.tick = t).ids

Lifecycle(i, spawn, despawn) == [entity_id |-> i, spawn_tick |-> spawn, despawn_tick |-> despawn]

\* the body of the loop for one tick: acc is <<lifecycles, previous_ids>>,
\* lifecycles a dict given as a function from ids to None or a lifecycle
LifecycleVisit(s, acc, t) ==
    IF t \notin TicksOf(s) THEN acc
    ELSE LET current_ids == IdsAt(s, t)
             previous_ids == acc[2]
             spawned == [i \in LifecycleIds |->
                            IF i \in current_ids \ previous_ids
                            THEN Some(Lifecycle(i, t, None))
                            ELSE acc[1][i]]
             despawned == [i \in LifecycleIds |->
                            IF i \in previous_ids \ current_ids /\ spawned[i] # None
                            THEN Some([spawned[i][1] EXCEPT !.despawn_tick = Some(t)])
                            ELSE spawned[i]]
         IN  <<despawned, current_ids>>

RECURSIVE LifecycleLoop(_, _, _, _)
\* for tick in range(lo, hi + 1)
LifecycleLoop(s, acc, lo, hi) ==
    IF lo > hi THEN acc
    ELSE LifecycleLoop(s, LifecycleVisit(s, acc, lo), lo + 1, hi)

\* compute_entity_lifecycles(store): the lifecycles by entity id
compute_entity_lifecycles(s) ==
    LET tick_range == LifecycleTickRange(s)
        empty == [i \in LifecycleIds |-> None]
    IN  IF tick_range = None THEN empty
        ELSE LifecycleLoop(s, <<empty, {}>>, tick_range[1], tick_range[2])[1]

InitLifecycle ==
    /\ InitProgram
    /\ engine = None /\ ckstore = None /\ remote = None /\ fstore = None /\ replay = None
    /\ \E s \in LifecycleStores : lifecycle = [store |-> s, result |-> None]

\* the call is made
ComputeLifecycles ==
    /\ lifecycle.result = None
    /\ lifecycle' = [lifecycle EXCEPT !.result = Some(compute_entity_lifecycles(lifecycle.store))]
    /\ UNCHANGED <<sourceVars, storeVars, serverVars, engine, ckstore, remote, fstore, replay>>

NextEntityLifecycles == ComputeLifecycles

SpecEntityLifecycles == InitLifecycle /\ [][NextEntityLifecycles]_vars

\* ------------------------------------------------- tick-loop source, again
\* get_snapshot(tick)
GetSnapshot(t) ==
    LET historical == IF t # None /\ t # Some(tick)
                      THEN HistoryGetSnapshot(history, t[1]) ELSE None
    IN IF historical # None THEN historical[1] ELSE BuildSnapshot(tick, entities, paused)

\* the tick arguments of get_snapshot: none, or a tick up to one past the last
TickArgs == {None} \cup {Some(t) : t \in 0..MaxTick + 1}

\* a caller awaits get_snapshot(t) and keeps what it returned
GetSnapshotCall(t) ==
    /\ reply' = Some([tick |-> t, snapshot |-> GetSnapshot(t)])
    /\ UNCHANGED extVars
    /\ UNCHANGED <<paused, tick_interval>>
    /\ UNCHANGED lifeVars
    /\ UNCHANGED worldVars
    /\ UNCHANGED subVars

\* one connected session with its subscribers
Next ==
    \/ stopGen = 0 /\ Connect
    \/ \E d \in Drivers : DriverIterate(d)
    \/ Pause
    \/ Resume
    \/ Step
    \/ \E s \in Subs : Subscribe(s)
    \/ \E s \in Subs : SubStart(s)
    \/ \E s \in Subs : SubGet(s)
    \/ \E s \in Subs : SubPoll(s)
    \/ \E s \in Subs : SubClose(s)

Spec == Init /\ [][Next]_vars

\* the owner of the source alternates connect() and disconnect(); one
\* subscription lives through it
NextLifecycle ==
    \/ ~connected /\ Connect
    \/ DisconnectBegin
    \/ DisconnectEnd
    \/ \E d \in Drivers : DriverCancelled(d)
    \/ \E d \in Drivers : DriverIterate(d)
    \/ Pause
    \/ Resume
    \/ Step
    \/ Subscribe(1)
    \/ SubStart(1)
    \/ SubGet(1)
    \/ SubPoll(1)
    \/ SubClose(1)

SpecLifecycle == Init /\ [][NextLifecycle]_vars

\* the owner of the source calls connect() and disconnect() in any order,
\* connect() on a connected source included
NextReconnect ==
    \/ Connect
    \/ DisconnectBegin
    \/ DisconnectEnd
    \/ \E d \in Drivers : DriverCancelled(d)
    \/ \E d \in Drivers : DriverIterate(d)
    \/ \E d \in Drivers : DriverStopped(d)

SpecReconnect == Init /\ [][NextReconnect]_vars

\* one connected session, its commands and its get_snapshot() calls
NextQuery ==
    \/ stopGen = 0 /\ Connect
    \/ \E d \in Drivers : DriverIterate(d)
    \/ Pause
    \/ Resume
    \/ Step
    \/ \E tps \in TpsInputs : SetSpeed(tps)
    \/ \E t \in TickArgs : GetSnapshotCall(t)

SpecQuery == Init /\ [][NextQuery]_vars

\* a history store driven directly: any tick numbers in any order, the
\* recorded objects changing in place between the calls
NextStore ==
    \/ \E t \in 0..MaxStoreTick, o \in Objs : RecordTick(t, o)
    \/ \E o \in Objs, v \in 0..MaxData : UpdateInPlace(o, v)
    \/ StoreClear

SpecStore == Init /\ [][NextStore]_vars

\* one connected session with a subscriber; the tick body may raise
NextFailure ==
    \/ stopGen = 0 /\ Connect
    \/ \E d \in Drivers : DriverIterate(d)
    \/ \E d \in Drivers : DriverFails(d)
    \/ Pause
    \/ Resume
    \/ Step
    \/ \E s \in Subs : Subscribe(s)
    \/ \E s \in Subs : SubStart(s)
    \/ \E s \in Subs : SubGet(s)
    \/ \E s \in Subs : SubPoll(s)

SpecFailure == Init /\ [][NextFailure]_vars

\* a tick that spawns nothing and produces neither an error nor a span
Quiet == errors' = errors /\ spans' = spans /\ Len(entities') = Len(entities)

\* the server over HistoryCapturingSource(MockWorldSource): the application
\* starts, clients connect, listen and send messages
NextServer ==
    \/ stopGen = 0 /\ Connect
    \/ \E d \in Drivers : DriverIterate(d) /\ Quiet
    \/ \E c \in Subs : Accept(c)
    \/ \E c \in Subs, msg \in ClientMessages : Receive(c, msg) /\ Quiet
    \/ \E c \in Subs : WriterStart(c)
    \/ \E c \in Subs : WriterStep(c)
    \/ \E c \in Subs : WriterSent(c)

SpecServer == Init /\ [][NextServer]_vars

\* the same server with clients that listen and go away
NextTeardown ==
    \/ stopGen = 0 /\ Connect
    \/ \E d \in Drivers : DriverIterate(d) /\ Quiet
    \/ \E c \in Subs : Accept(c)
    \/ \E c \in Subs : PeerClose(c)
    \/ \E c \in Subs : ReaderDisconnected(c)
    \/ \E c \in Subs : WriterStart(c)
    \/ \E c \in Subs : WriterStep(c)
    \/ \E c \in Subs : WriterSent(c)
    \/ \E c \in Subs : WriterSendFails(c)
    \/ \E c \in Subs : SessionEnd(c)
    \/ \E c \in Subs : GenFinalize(c)

SpecTeardown == Init /\ [][NextTeardown]_vars

\* the playback commands of a client
GateMessages == {ClientMsg(Some(c), FALSE, None, None) : c \in {"pause", "resume", "step"}}

\* the same server with clients that listen and send playback commands only
NextGate ==
    \/ stopGen = 0 /\ Connect
    \/ \E d \in Drivers : DriverIterate(d) /\ Quiet
    \/ \E c \in Subs : Accept(c)
    \/ \E c \in Subs, msg \in GateMessages : cmds < MaxGateCmds /\ ReceiveJson(c, msg) /\ Quiet
    \/ \E c \in Subs : WriterStart(c)
    \/ \E c \in Subs : WriterStep(c)
    \/ \E c \in Subs : WriterSent(c)

SpecGate == Init /\ [][NextGate]_vars

\* ------------------------------------------------------------ properties
\* what a subscription has been given so far: handed to its consumer, then queued
Seen(s) == recv[s] \o queue[s]

\* a step that executes a tick
Ticked == tick' = tick + 1

\* a driver task that is due to run: not started yet, or its wait has timed out
Due(d) ==
    /\ joining # d
    /\ \/ drv[d].pc = "ready"
       \/ drv[d].pc = "waiting" /\ ~IsSet(drv[d].ev)

\* C1: fan-out isolation. The events of a tick (its snapshot, then its error
\* and span events) go, in order, to every subscriber queue as far as that
\* queue has room, whatever the other queues hold, and a
\* driver that is due to run can always run its iteration: no queue, however
\* full, makes it wait.
C1_FanOutIsolation ==
    [][/\ Ticked =>
            \E err \in BOOLEAN, ns \in 0..MaxSpans :
                \A s \in Subs :
                    queue'[s] = IF s \in subscribers
                                THEN queue[s] \o Take(TickEvents(tick', err, ns, entities'),
                                                      QueueMax - Len(queue[s]))
                                ELSE queue[s]
       /\ \A d \in Drivers : Due(d) /\ tick < MaxTick => ENABLED DriverIterate(d)]_vars

\* a subscriber that never drained sits on a full queue of tick-1 events and
\* has lost events, while the tick went on and another subscriber holds the
\* snapshot of the current tick
C1_Witness ==
    \E s1 \in subscribers, s2 \in subscribers :
        /\ s1 # s2
        /\ recv[s1] = <<>>
        /\ Len(queue[s1]) = QueueMax
        /\ \A i \in DOMAIN queue[s1] : queue[s1][i].tick < tick
        /\ lost[s1]
        /\ \E i \in DOMAIN queue[s2] : queue[s2][i] = SnapshotMessage(tick)

\* C2: drop-newest-on-full. No queue ever holds more than event_queue_maxsize
\* events; a tick leaves every queue's earlier contents in place and in order;
\* a queue that is full keeps exactly what it had, while each subscriber with
\* room still gets the tick's first event.
C2_DropNewestOnFull ==
    [][/\ \A s \in Subs : Len(queue'[s]) <= QueueMax
       /\ Ticked =>
            \A s \in subscribers :
                /\ Len(queue'[s]) >= Len(queue[s])
                /\ SubSeq(queue'[s], 1, Len(queue[s])) = queue[s]
                /\ Len(queue[s]) = QueueMax => queue'[s] = queue[s]
                /\ Len(queue[s]) < QueueMax =>
                       queue'[s][Len(queue[s]) + 1] = SnapshotMessage(tick')]_vars

\* a subscriber lost an event on a full queue that still starts with the first
\* event emitted after it registered
C2_Witness ==
    \E s \in subscribers :
        /\ lost[s]
        /\ Len(queue[s]) = QueueMax
        /\ recv[s] = <<>>
        /\ queue[s][1] = SnapshotMessage(regTick[s] + 1)
        /\ tick > queue[s][QueueMax].tick

\* C3: per-subscriber ordering. In what one subscription is given, ticks never
\* go back, and the snapshot of a tick comes after every event of earlier ticks
\* and before every other event of its own tick.
C3_PerSubscriberOrdering ==
    \A s \in Subs :
        \A i \in DOMAIN Seen(s), j \in DOMAIN Seen(s) :
            i < j =>
                /\ Seen(s)[i].tick <= Seen(s)[j].tick
                /\ Seen(s)[j].type = "snapshot" => Seen(s)[i].tick < Seen(s)[j].tick

\* a consumer was handed the snapshot of a tick, then an error or span event of
\* that tick, then the snapshot of the next tick
C3_Witness ==
    \E s \in Subs :
        \E i \in DOMAIN recv[s] :
            /\ i + 2 \in DOMAIN recv[s]
            /\ recv[s][i].type = "snapshot"
            /\ recv[s][i + 1].type # "snapshot"
            /\ recv[s][i + 1].tick = recv[s][i].tick
            /\ recv[s][i + 2] = SnapshotMessage(recv[s][i].tick + 1)

\* the snapshot ticks a subscription has been given, in order
SnapTicks(s) ==
    LET snaps == SelectSeq(Seen(s), LAMBDA e : e.type = "snapshot")
    IN [i \in DOMAIN snaps |-> snaps[i].tick]

\* what a subscription has been given of the ticks after t
Since(s, t) == SelectSeq(Seen(s), LAMBDA e : e.tick > t)

\* C4: multi-subscriber semantics. A registered subscriber for which nothing
\* was dropped has been given the snapshot of every tick after its
\* registration, in tick order, and two such subscribers have been given the
\* same events, in the same order, for the ticks after both registered.
C4_MultiSubscriber ==
    \A s1 \in subscribers :
        ~lost[s1] =>
            /\ SnapTicks(s1) = [i \in 1..(tick - regTick[s1]) |-> regTick[s1] + i]
            /\ \A s2 \in subscribers :
                   ~lost[s2] =>
                       Since(s1, Max(regTick[s1], regTick[s2]))
                           = Since(s2, Max(regTick[s1], regTick[s2]))

\* two draining subscribers registered before tick 1 have both been given the
\* snapshots of ticks 1 and 2
C4_Witness ==
    \E s1 \in subscribers, s2 \in subscribers :
        /\ s1 # s2
        /\ ~lost[s1] /\ ~lost[s2]
        /\ regTick[s1] = 0 /\ regTick[s2] = 0
        /\ recv[s1] # <<>> /\ recv[s2] # <<>>
        /\ SnapTicks(s1) = <<1, 2>>
        /\ SnapTicks(s2) = <<1, 2>>

\* the number of snapshot events in a queue
Snaps(q) == Len(SelectSeq(q, LAMBDA e : e.type = "snapshot"))

\* C5: step semantics. A step command on a paused source advances the tick by
\* exactly one, adds the one history record of that tick, puts one snapshot
\* event of that tick on every subscriber queue with room and none elsewhere,
\* and leaves the source paused; a step command on a source that is not paused
\* changes nothing.
C5_StepSemantics ==
    [][Step =>
          IF paused
          THEN /\ tick' = tick + 1
               /\ paused'
               /\ RetainedTicks(history') \ RetainedTicks(history) = {tick'}
               /\ Len(history') <= Len(history) + 1
               /\ HistoryGetSnapshot(history', tick') # None
               /\ \A s \in Subs :
                      Snaps(queue'[s]) = Snaps(queue[s])
                          + (IF s \in subscribers /\ Len(queue[s]) < QueueMax THEN 1 ELSE 0)
               /\ \A s \in subscribers :
                      Len(queue[s]) < QueueMax =>
                          queue'[s][Len(queue[s]) + 1] = SnapshotMessage(tick')
          ELSE UNCHANGED vars]_vars

\* the source is paused and its current tick was executed while it was paused:
\* the tick is in the history and its snapshot event reached a subscriber
C5_Witness ==
    /\ paused
    /\ tick >= 1
    /\ HistoryGetSnapshot(history, tick) = Some(BuildSnapshot(tick, entities, TRUE))
    /\ \E s \in subscribers :
           \E i \in DOMAIN Seen(s) : Seen(s)[i] = SnapshotMessage(tick)

\* C6: pause semantics. An iteration of a driver task that runs while the
\* source is paused leaves the tick, the entities, the history and every queue
\* as they are, and as long as the source stays paused the tick changes only
\* by step commands, by one for each.
C6_PauseSemantics ==
    [][paused =>
          /\ \A d \in Drivers :
                 DriverIterate(d) =>
                     UNCHANGED <<tick, entities, data, history, errors, spans, queue>>
          /\ paused' /\ tick' # tick => Step /\ tick' = tick + 1]_vars

\* a driver task has run an iteration and waits again, yet the only tick
\* executed since connect() is one executed while paused
C6_Witness ==
    /\ paused
    /\ connected
    /\ stopGen # 0
    /\ drv[stopGen].pc = "waiting"
    /\ tick = 1
    /\ HistoryGetSnapshot(history, 1) # None
    /\ HistoryGetSnapshot(history, 1)[1].paused

\* everything but the tick interval
exceptInterval ==
    <<connected, paused, stopGen, stopSet, loop_task, drv, joining, tick,
      entities, data, history, errors, spans, subscribers, sub, queue, recv,
      lost, regTick, reply>>

\* C7: set_speed validation. For ticks_per_second = v, an int or float that is
\* not a bool and is positive, the command sets tick_interval to 1/v and
\* changes nothing else; for any other value it changes nothing at all.
C7_SetSpeedValidation ==
    [][\A tps \in TpsInputs :
          SetSpeed(tps) =>
              IF tps.kind \in {"int", "float"} /\ tps.num > 0
              THEN /\ tick_interval'[1] * tps.num = tick_interval'[2] * tps.den
                   /\ tick_interval'[2] > 0
                   /\ UNCHANGED exceptInterval
              ELSE UNCHANGED vars]_vars

\* set_speed with ticks_per_second = 0.5 has set the interval of a running
\* source to 2
C7_Witness ==
    /\ tick_interval = <<2, 1>>
    /\ connected
    /\ tick >= 1

\* C8: reconnect resets. Every connect(), the one after a disconnect()
\* included, leaves current_tick 0, paused false and a history of exactly the
\* record of tick 0: tick_count 1 and tick_range (0, 0).
C8_ReconnectResets ==
    [][stopGen' # stopGen =>
          /\ connected'
          /\ tick' = 0
          /\ paused' = FALSE
          /\ HistoryTickCount(history') = 1
          /\ HistoryGetTickRange(history') = <<0, 0>>
          /\ HistoryGetSnapshot(history', 0) = Some(BuildSnapshot(0, entities', FALSE))]_vars

\* the second connect() has just returned, after a first session that
\* executed ticks, delivered one to the subscriber and was disconnected
C8_Witness ==
    /\ stopGen = 2
    /\ connected
    /\ drv[1].pc = "done"
    /\ drv[2].pc = "ready"
    /\ tick = 0
    /\ \E i \in DOMAIN recv[1] : recv[1][i].tick >= 1

\* C9: get_snapshot semantics as the specification states them: the live
\* snapshot when the tick is absent or the current tick, the recorded snapshot
\* when the history retains the tick, and otherwise an empty snapshot.
C9_GetSnapshotAsSpecified ==
    [][\A t \in TickArgs :
          GetSnapshotCall(t) =>
              LET snapshot == reply'[1].snapshot
              IN IF t = None \/ t = Some(tick)
                 THEN snapshot = BuildSnapshot(tick, entities, paused)
                 ELSE IF t[1] \in RetainedTicks(history)
                      THEN Some(snapshot) = HistoryGetSnapshot(history, t[1])
                      ELSE snapshot.entities = <<>>]_vars

\* disconnect() has returned and connect() was not called since
Returned == ~connected /\ joining = 0 /\ stopGen # 0

Ticks(records) == [i \in DOMAIN records |-> records[i].tick]

\* a step that is a record_tick() call, and the call it made
Recording == Len(calls') = Len(calls) + 1

Call == calls'[Len(calls')]

\* C17 as stated: record_tick is idempotent on the tick number: recording a
\* tick that is retained leaves the stored content, the number of retained
\* ticks and their order as they were
C17_RecordTickNoOp ==
    [][(Recording /\ Call.tick \in RetainedTicks(store)) => store' = store]_vars

\* C17, amended: recording a tick that is retained replaces the record stored
\* for that tick by the new one; the number of retained ticks, their order and
\* the records of the other ticks stay as they were
C17_RecordTickOverwrites ==
    [][(Recording /\ Call.tick \in RetainedTicks(store)) =>
          /\ HistoryTickCount(store') = HistoryTickCount(store)
          /\ Ticks(store') = Ticks(store)
          /\ HistoryGetSnapshot(store', Call.tick)
                = Some(TickRecord(Call.tick, Call.snapshot))
          /\ \A u \in RetainedTicks(store) \ {Call.tick} :
                HistoryGetSnapshot(store', u) = HistoryGetSnapshot(store, u)]_vars

\* a retained tick that is not the newest has just been recorded again with
\* another snapshot, and the store answers with the new one
C17_Witness ==
    /\ Len(calls) >= 3
    /\ LET n == Len(calls)
       IN /\ calls[n].tick = calls[n - 2].tick
          /\ calls[n].snapshot # calls[n - 2].snapshot
          /\ calls[n - 1].tick # calls[n].tick
          /\ Ticks(store) = <<calls[n].tick, calls[n - 1].tick>>
          /\ HistoryGetSnapshot(store, calls[n].tick)
                = Some(TickRecord(calls[n].tick, calls[n].snapshot))

\* the calls made so far recorded the ticks 0, 1, 2, ... in order
Sequential(cs) == \A i \in DOMAIN cs : cs[i].tick = i - 1

\* C18: the store never holds more than max_ticks ticks; a new tick recorded
\* into a full store evicts the oldest retained one; after the ticks 0..n-1
\* were recorded in order, n > max_ticks, exactly the last max_ticks of them
\* are retrievable
C18_BoundedHistory ==
    [][/\ HistoryTickCount(store') <= MaxHistory
       /\ (Recording /\ Call.tick \notin RetainedTicks(store)) =>
             store' = Append(IF Len(store) = MaxHistory THEN Tail(store) ELSE store,
                             TickRecord(Call.tick, Call.snapshot))
       /\ (Recording /\ Sequential(calls') /\ Len(calls') > MaxHistory) =>
             \A t \in 0..MaxStoreTick :
                 (HistoryGetSnapshot(store', t) # None)
                   <=> t \in (Len(calls') - MaxHistory)..(Len(calls') - 1)]_vars

\* the ticks 0..MaxHistory+1 were recorded in order: two evictions happened
C18_Witness ==
    /\ Len(calls) = MaxHistory + 2
    /\ Sequential(calls)
    /\ HistoryTickCount(store) = MaxHistory
    /\ HistoryGetSnapshot(store, 1) = None
    /\ HistoryGetSnapshot(store, MaxHistory + 1) # None

\* C19 as stated: whatever record_tick calls were made, in order or not,
\* get_tick_range answers none for an empty store and otherwise the smallest
\* and the largest retained tick, and the retained ticks are kept in
\* strictly increasing order
C19_TickRangeIsMinMax ==
    /\ store = <<>> => HistoryGetTickRange(store) = None
    /\ store # <<>> =>
         /\ HistoryGetTickRange(store)
              = <<CHOOSE t \in RetainedTicks(store) : \A u \in RetainedTicks(store) : t <= u,
                  CHOOSE t \in RetainedTicks(store) : \A u \in RetainedTicks(store) : u <= t>>
         /\ \A i \in DOMAIN store : \A j \in DOMAIN store :
                i < j => store[i].tick < store[j].tick

\* the calls made so far have strictly increasing tick numbers
Increasing(cs) == \A i \in DOMAIN cs : \A j \in DOMAIN cs : i < j => cs[i].tick < cs[j].tick

\* C20 as stated: after record_tick calls with strictly increasing ticks,
\* get_snapshot(t) answers, for every retained tick t, a snapshot of tick t
\* whose data is what it was when t was recorded, and none for a tick that
\* was never recorded or has been evicted
C20_Reconstruction ==
    Increasing(calls) =>
        \A t \in 0..MaxStoreTick :
            LET got == HistoryGetSnapshot(store, t)
            IN IF \E i \in DOMAIN calls : calls[i].tick = t /\ i > Len(calls) - MaxHistory
               THEN /\ got # None
                    /\ got[1].tick = t
                    /\ \A i \in DOMAIN calls :
                          calls[i].tick = t => heap[got[1].snapshot] = calls[i].data
               ELSE got = None

\* ------------------------------------------------------ websocket sessions
\* a step in which session c received the message msg
Received(c, msg) == cmds' = cmds + 1 /\ rx' = Some([session |-> c, msg |-> msg])

\* the step appended exactly one message to what session c was sent
Answer(c) == out'[c][Len(out'[c])]

AnsweredOnce(c) == Len(out'[c]) = Len(out[c]) + 1 /\ SubSeq(out'[c], 1, Len(out[c])) = out[c]

\* C11 as stated: the first message of a session is metadata, the second is
\* a snapshot, and no later message of the session is metadata
C11_Handshake ==
    \A c \in Subs :
        /\ ws[c] # "none" => Len(out[c]) >= 1
        /\ Len(out[c]) >= 1 => out[c][1].type = "metadata"
        /\ Len(out[c]) >= 2 => out[c][2].type = "snapshot"
        /\ \A i \in 2..Len(out[c]) : out[c][i].type # "metadata"

\* the messages C12 calls invalid: an unknown command tag, no command field,
\* a ticks_per_second that is no number or not positive, a seek tick that is
\* no number or negative
Invalid(msg) ==
    \/ msg.command = None
    \/ msg.command \in {Some("bogus"), Some("subscribe")}
    \/ msg.command = Some("set_speed") /\ (msg.tps[1].kind = "str" \/ msg.tps[1].num <= 0)
    \/ msg.command = Some("seek") /\ (msg.tick[1].kind = "str" \/ msg.tick[1].num < 0)

\* C12 as stated: an invalid client message is answered with one error event
\* on its connection, is not dispatched (tick, paused and tick_interval stay
\* as they were) and does not close the session
C12_CommandValidation ==
    [][\A c \in Subs, msg \in ClientMessages :
          (Received(c, msg) /\ Invalid(msg)) =>
              /\ AnsweredOnce(c)
              /\ Answer(c).type = "error"
              /\ tick' = tick
              /\ paused' = paused
              /\ tick_interval' = tick_interval
              /\ ws'[c] = "open"]_vars

\* C13 as stated: seek(t) for a retained tick t is answered with one snapshot
\* event of tick t on the requesting connection, adds nothing to what the
\* other sessions are sent, and leaves current_tick and paused as they were
C13_SeekResponse ==
    [][\A c \in Subs, msg \in ClientMessages :
          (/\ Received(c, msg)
           /\ msg.command = Some("seek")
           /\ msg.tick[1].kind = "int"
           /\ HistoryGetSnapshot(hc_store, msg.tick[1].num) # None) =>
              /\ AnsweredOnce(c)
              /\ Answer(c).type = "snapshot"
              /\ Answer(c).tick = Some(msg.tick[1].num)
              /\ \A d \in Subs \ {c} : out'[d] = out[d]
              /\ tick' = tick /\ hc_tick' = hc_tick
              /\ paused' = paused /\ hc_paused' = hc_paused]_vars

\* C14 as stated: seek to a tick that is not retained is answered with one
\* error event, the session goes on, and current_tick and paused are as they
\* were before the request
C14_SeekUnavailable ==
    [][\A c \in Subs, msg \in ClientMessages :
          (/\ Received(c, msg)
           /\ msg.command = Some("seek")
           /\ msg.tick[1].kind = "int"
           /\ HistoryGetSnapshot(hc_store, msg.tick[1].num) = None) =>
              /\ AnsweredOnce(c)
              /\ Answer(c).type = "error"
              /\ ws'[c] = "open"
              /\ tick' = tick /\ hc_tick' = hc_tick
              /\ paused' = paused /\ hc_paused' = hc_paused]_vars

\* C15 as stated: pause, resume and step are each followed on their
\* connection by exactly one tick_update carrying the tick and the pause
\* state after the command; an accepted set_speed is followed by no
\* acknowledgement and no error
C15_CommandAck ==
    [][\A c \in Subs, msg \in ClientMessages :
          Received(c, msg) =>
              /\ msg.command \in {Some("pause"), Some("resume"), Some("step")} =>
                    /\ AnsweredOnce(c)
                    /\ Answer(c).type = "tick_update"
                    /\ Answer(c).tick = Some(tick')
                    /\ Answer(c).is_paused = Some(paused')
              /\ (msg.command = Some("set_speed") /\ ~Invalid(msg)) => out'[c] = out[c]]_vars

\* C16 as stated: a closed session has neither task running and its queue is
\* out of the subscriber set, however it ended; once every session is
\* closed the subscriber set is empty
C16_SessionTeardown ==
    /\ \A c \in Subs :
          ws[c] = "closed" => rtask[c] = "done" /\ wtask[c] = "done" /\ c \notin subscribers
    /\ (\A c \in Subs : ws[c] = "closed") => subscribers = {}

\* the components of an entity as a set, whatever their order
ComponentSet(e) == {e.components[j] : j \in DOMAIN e.components}

\* the data payloads of an entity by key
Payloads(e) == [j \in DOMAIN KeyOrder |-> DataOf(e.components, KeyOrder[j])]

\* no component diff of the delta has equal old and new values
NoEqualDiff(delta) ==
    \A i \in DOMAIN delta.modified : \A j \in DOMAIN delta.modified[i] :
        delta.modified[i][j].old_value # delta.modified[i][j].new_value

\* C22 as stated: for every pair of snapshots, applying their delta to the
\* first gives the tick and the entity ids of the second and, for each entity,
\* the components of the second with their type_short, type_name and data;
\* no component diff of the delta has equal old and new values
C22_DeltaRoundTrip ==
    (engine # None /\ engine.out # None) =>
        /\ engine.out[1].tick = engine.new.tick
        /\ IdsOf(engine.out[1].entities) = IdsOf(engine.new.entities)
        /\ \A i \in IdsOf(engine.new.entities) :
              ComponentSet(EntityOf(engine.out[1].entities, i))
                 = ComponentSet(EntityOf(engine.new.entities, i))
        /\ NoEqualDiff(engine.delta[1])

\* two snapshots with the same tick, the same entity ids and, for each entity,
\* the same data payload under every key
SameData(a, b) ==
    /\ a.tick = b.tick
    /\ IdsOf(a.entities) = IdsOf(b.entities)
    /\ \A i \in IdsOf(a.entities) :
          Payloads(EntityOf(a.entities, i)) = Payloads(EntityOf(b.entities, i))

\* the snapshot given by the last recording call for tick t
LastRecorded(rec, t) ==
    LET at == {j \in DOMAIN rec : rec[j].tick = t}
    IN rec[CHOOSE j \in at : \A x \in at : x <= j]

\* the store retains min(ticks recorded, max_ticks) ticks, the retained entry
\* of the smallest tick is a checkpoint, and get_snapshot of every retained
\* tick gives the tick, the entity ids and the component data recorded for it
Promoted(st) ==
    /\ Len(st.entries) = Min(Cardinality({st.recorded[j].tick : j \in DOMAIN st.recorded}),
                             MaxHistory)
    /\ \A j \in DOMAIN st.entries :
          (\A x \in DOMAIN st.entries : st.entries[j].tick <= st.entries[x].tick)
             => st.entries[j].kind = "checkpoint"
    /\ \A t \in StoredTicks(st.entries) :
          LET got == CheckpointGetSnapshot(st.entries, t)
          IN got # None /\ SameData(got[1], LastRecorded(st.recorded, t))

Read(snapshot, d) ==
    [tick |-> snapshot.tick,
     entities |-> [i \in DOMAIN snapshot.entities |->
                     [id |-> snapshot.entities[i], data |-> d[snapshot.entities[i]]]]]

\* C23 as stated: a tick that executes changes no snapshot recorded before
\* it: every snapshot that history retains over the tick reads afterwards as
\* it read before, entity set and component data
C23_SnapshotsImmutable ==
    [][tick' = tick + 1 =>
          \A i \in DOMAIN history :
              (\E j \in DOMAIN history' : history'[j] = history[i]) =>
                  Read(history[i], data') = Read(history[i], data)]_vars

\* C24 as stated: when the tick body raises, the driver terminates, the
\* source is marked disconnected and the stop signal is set, so that every
\* subscription stream ends at its next poll
C24_DriverFailure ==
    [][\A d \in Drivers :
          (drv[d].pc # "failed" /\ drv'[d].pc = "failed") =>
              /\ ~connected'
              /\ stopGen' \in stopSet']_vars

\* C25 as stated: a subscription stream that was active when disconnect() was
\* called, its queue gone from the subscriber set since, ends when it next
\* polls the stop signal, also when connect() was called again before that poll
C25_BoundedTeardown ==
    [][\A s \in Subs :
          (SubPoll(s) /\ sub[s] \in {"waiting", "yielded"} /\ s \notin subscribers) =>
              sub'[s] = "closed"]_vars

\* everything the remote source was sent and still has or has handed out:
\* handed to the consumer, then queued, then buffered
Flow(r) == r.taken \o r.queue \o r.buffer

\* C26: while paused a received tick event goes to the buffer and the queue
\* is left alone; when the source is not paused nothing is buffered (resume
\* moved it all to the queue); the events handed out, queued and buffered are
\* in the order received with none twice, and none is missing unless some
\* pause saw buffer_size events or more; a step while paused moves exactly
\* the oldest buffered event to the end of the queue
C26_LocalPause ==
    [][remote # None /\ remote' # None =>
          /\ (remote.paused /\ remote'.next # remote.next) =>
                /\ remote'.queue = remote.queue
                /\ remote'.buffer # <<>>
                /\ remote'.buffer[Len(remote'.buffer)] = remote.next
          /\ (remote'.connected /\ ~remote'.paused) => remote'.buffer = <<>>
          /\ \A i \in DOMAIN Flow(remote') : \A j \in DOMAIN Flow(remote') :
                i < j => Flow(remote')[i] < Flow(remote')[j]
          /\ ~remote'.spilled => Flow(remote') = [i \in 1..remote'.next - 1 |-> i]
          /\ (remote.paused /\ remote'.paused /\ remote'.next = remote.next
                /\ remote'.buffer # remote.buffer) =>
                /\ remote'.buffer = Tail(remote.buffer)
                /\ remote'.queue = Append(remote.queue, Head(remote.buffer))]_vars

\* two events were buffered during a pause and drained by resume, and an
\* event received afterwards is queued behind them
C26_Witness ==
    /\ remote # None
    /\ ~remote.paused
    /\ ~remote.spilled
    /\ remote.drained = 2
    /\ remote.taken = <<1>>
    /\ remote.queue = <<2, 3, 4>>
    /\ remote.buffer = <<>>

\* C27: the pause buffer never holds more than buffer_size events; an event
\* received while paused with the buffer full discards the oldest buffered
\* event, so that the newest buffer_size events stay in the order they arrived
C27_BufferBounded ==
    [][remote # None /\ remote' # None =>
          /\ Len(remote'.buffer) <= BufferSize
          /\ (remote.paused /\ remote'.next # remote.next /\ Len(remote.buffer) = BufferSize) =>
                remote'.buffer = Append(Tail(remote.buffer), remote.next)
          /\ (remote'.paused /\ remote'.arrived >= BufferSize /\ Len(remote'.buffer) = BufferSize) =>
                remote'.buffer = [i \in 1..BufferSize |-> remote'.next - 1 - BufferSize + i]]_vars

\* more than buffer_size events arrived during one pause: the oldest are gone
C27_Witness ==
    /\ remote # None
    /\ remote.paused
    /\ remote.arrived = BufferSize + 2
    /\ remote.buffer = <<remote.next - 3, remote.next - 2, remote.next - 1>>
    /\ Len(remote.buffer) = BufferSize
    /\ remote.taken = <<>>
    /\ remote.queue = <<>>

\* ------------------------------------------------------- FileHistoryStore

\* what get_tick returns for every tick
Reads(st) == [t \in FileTicks |-> ReadTick(st, t)]

\* the last intact line of the file that holds tick t, parsed
StoredRecord(disk, t) ==
    JsonLoads(disk[CHOOSE i \in LinesOf(disk, t) : \A j \in LinesOf(disk, t) : j <= i])

\* C28: on a FileHistoryStore opened in mode "r", record_tick and clear each
\* raise RuntimeError and leave _index, _tick_range, tick_count and the file
\* as they were, and get_tick returns after the call what it returned before
\* it: for every tick of the file, the record stored for it.
C28_ReadOnly ==
    [][(/\ fstore.mode = "r"
        /\ \/ \E record \in FileRecords : FileRecordTick(record)
           \/ FileClear)
       => /\ fstore'.raised = "RuntimeError"
          /\ fstore'.index = fstore.index
          /\ fstore'.tick_range = fstore.tick_range
          /\ tick_count(fstore') = tick_count(fstore)
          /\ fstore'.disk = fstore.disk
          /\ fstore'.handle = fstore.handle
          /\ Reads(fstore') = Reads(fstore)
          /\ fstore.handle = "r" =>
                \A t \in FileTicks :
                    Reads(fstore')[t] = IF LinesOf(fstore.disk, t) = {} THEN None
                                        ELSE Some(StoredRecord(fstore.disk, t))]_vars

C28_Witness ==
    /\ fstore # None
    /\ fstore.mode = "r"
    /\ fstore.handle = "r"
    /\ fstore.raised = "RuntimeError"
    /\ Len(fstore.disk) >= 2
    /\ tick_count(fstore) >= 2

WrittenTicks(written) == {written[i].tick : i \in DOMAIN written}

LastWritten(written, t) ==
    written[CHOOSE i \in DOMAIN written :
                /\ written[i].tick = t
                /\ \A j \in DOMAIN written : written[j].tick = t => j <= i]

\* C29: when only record_tick was called on the writable instances of a file
\* and the last one was closed, a FileHistoryStore opened on the file in
\* mode "r" or "a" has the ticks that were written, tick_count the number of
\* distinct ticks, tick_range (smallest, largest) of them, and get_tick
\* returns for each tick the last line written for it (the record as JSON
\* holds it).
C29_PersistenceRoundTrip ==
    [][(/\ fstore.recordsOnly
        /\ \E mode \in {"r", "a"} : FileOpen(mode)
        /\ fstore'.handle # "none")
       => LET ts == WrittenTicks(fstore.written)
          IN  /\ IndexedTicks(fstore'.index) = ts
              /\ tick_count(fstore') = Cardinality(ts)
              /\ fstore'.tick_range =
                    IF ts = {} THEN None
                    ELSE <<CHOOSE t \in ts : \A u \in ts : t <= u,
                           CHOOSE t \in ts : \A u \in ts : u <= t>>
              /\ \A t \in ts :
                    ReadTick(fstore', t) =
                        Some(JsonLoads(JsonDumps(LastWritten(fstore.written, t))))]_vars

\* a reopened file in which a tick was written twice, with different payloads
C29_Witness ==
    /\ fstore # None
    /\ fstore.recordsOnly
    /\ fstore.handle \in {"r", "a+"}
    /\ Len(fstore.written) = 3
    /\ Len(fstore.disk) = 3
    /\ Cardinality(WrittenTicks(fstore.written)) = 2
    /\ \E i \in 1..3 : \E j \in 1..3 :
          /\ i < j
          /\ fstore.written[i].tick = fstore.written[j].tick
          /\ fstore.written[i].snapshot.n # fstore.written[j].snapshot.n
          /\ ReadTick(fstore, fstore.written[j].tick) =
                Some(JsonLoads(JsonDumps(fstore.written[j])))
    /\ fstore.index = BuildOffsets(fstore.disk)
    /\ fstore.pos = 3
    /\ fstore.raised = "none"

\* ------------------------------------------------------ ReplayWorldSource

LastStoredTick(s) == CHOOSE t \in Range(s.ticks) : \A u \in Range(s.ticks) : u <= t

\* the loop iteration that ends playback: the source was playing and is paused
EndOfPlayback ==
    /\ ReplayIterate
    /\ ~replay.paused
    /\ replay.pending_seek = None
    /\ replay'.paused

\* C30: over a non-empty store, playback never takes current_tick past the
\* last stored tick, and the iteration that ends playback finds current_tick
\* at the last stored tick, leaves it there, pauses the source and emits a
\* history-info event with is_paused true.
C30_PlaybackStopsAtEnd ==
    [][(/\ ReplayIterate
        /\ replay.store.ticks # <<>>)
       => /\ replay'.current_tick # None
          /\ replay'.current_tick[1] <= LastStoredTick(replay.store)
          /\ EndOfPlayback =>
                /\ replay.current_tick = Some(LastStoredTick(replay.store))
                /\ replay'.current_tick = replay.current_tick
                /\ replay'.out = <<HistoryInfoEvent(StoreTickRange(replay.store), TRUE)>>]_vars

\* ----------------------------------------------- compute_entity_lifecycles

SeenIds(s) == UNION {r.ids : r \in Range(s.records)}

TicksWith(s, i) == {t \in TicksOf(s) : i \in IdsAt(s, t)}

SetMin(S) == CHOOSE t \in S : \A u \in S : t <= u

SetMax(S) == CHOOSE t \in S : \A u \in S : u <= t

\* the stored ticks after the first appearance of i in which i is absent
AbsentAfterSpawn(s, i) == {t \in TicksOf(s) : t > SetMin(TicksWith(s, i)) /\ i \notin IdsAt(s, t)}

\* C31: compute_entity_lifecycles returns a lifecycle for exactly the entity
\* ids seen in the stored snapshots (none for an empty store); spawn_tick is
\* the first stored tick in which the entity appears, despawn_tick is None
\* when the entity is in the last stored tick and otherwise the first later
\* stored tick in which it is absent.
C31_EntityLifecycles ==
    (lifecycle # None /\ lifecycle.result # None) =>
        LET s == lifecycle.store
            lcs == lifecycle.result[1]
        IN  \A i \in LifecycleIds :
               IF i \notin SeenIds(s) THEN lcs[i] = None
               ELSE /\ lcs[i] # None
                    /\ lcs[i][1].entity_id = i
                    /\ lcs[i][1].spawn_tick = SetMin(TicksWith(s, i))
                    /\ lcs[i][1].despawn_tick =
                          IF i \in IdsAt(s, SetMax(TicksOf(s))) THEN None
                          ELSE Some(SetMin(AbsentAfterSpawn(s, i)))

\* ---------------------------------------------- MockWorldSource, recording

\* the snapshot events a subscription holds in its queue or has been handed
SnapshotTicks(s) ==
    {e.tick : e \in {x \in Range(queue[s]) \cup Range(recv[s]) : x.type = "snapshot"}}

\* C32: while the source is connected, the history is not empty and its range
\* ends at the current tick, it is (0, tick) as long as nothing was evicted,
\* and the tick of every snapshot event that is in a subscriber queue or was
\* delivered has been recorded: it is not above the end of the range and,
\* unless it was evicted since, it is retained.
C32_RecordBeforeEmit ==
    connected =>
        /\ history # <<>>
        /\ HistoryGetTickRange(history)[2] = tick
        /\ tick < MaxHistory => HistoryGetTickRange(history) = <<0, tick>>
        /\ \A s \in Subs : \A n \in SnapshotTicks(s) :
              /\ n <= HistoryGetTickRange(history)[2]
              /\ n >= HistoryGetTickRange(history)[1] => n \in RetainedTicks(history)

C32_Witness ==
    /\ connected
    /\ tick = MaxTick
    /\ HistoryGetTickRange(history) = <<MaxTick - MaxHistory + 1, MaxTick>>
    /\ tick \in SnapshotTicks(1)
    /\ SnapshotMessage(tick) \in Range(recv[1])
    /\ SnapshotMessage(tick) \in Range(queue[2])

\* ------------------------------------------------ ReplayWorldSource, step

\* the loop iteration that serves a step: one is pending, no seek is
ServesStep ==
    /\ ReplayIterate
    /\ replay.pending_step
    /\ replay.pending_seek = None
    /\ replay.current_tick # None

\* C33 as stated: the iteration that serves a step received while paused
\* advances current_tick by exactly one and emits one tick event, and the
\* source is still paused.
C33_StepAdvancesOne ==
    [][(ServesStep /\ replay.paused)
       => /\ replay'.current_tick = Some(replay.current_tick[1] + 1)
          /\ replay'.out = <<ReplayTickEvent(replay.current_tick[1] + 1)>>
          /\ replay'.paused]_vars

\* C33, amended: the iteration that serves a step advances current_tick by
\* exactly one when it is below the end of the store's tick range, with one
\* tick event when the store holds the new tick and none when it does not;
\* at the end of the range current_tick stays and a history-info event with
\* is_paused true is emitted.  The step is then no longer pending, a source
\* that was paused is still paused, an iteration of a paused source with no
\* step and no seek pending changes nothing, and a step command received
\* while playing changes nothing.
C33_Step ==
    [][/\ ServesStep =>
            LET next_tick == replay.current_tick[1] + 1
                tick_range == StoreTickRange(replay.store)
            IN  /\ ~replay'.pending_step
                /\ replay.paused => replay'.paused
                /\ IF next_tick <= tick_range[2]
                   THEN /\ replay'.current_tick = Some(next_tick)
                        /\ replay'.out = IF StoreHas(replay.store, next_tick)
                                         THEN <<ReplayTickEvent(next_tick)>> ELSE <<>>
                        /\ replay'.paused = replay.paused
                   ELSE /\ replay'.current_tick = replay.current_tick
                        /\ replay'.out = <<HistoryInfoEvent(tick_range, TRUE)>>
                        /\ replay'.paused
       /\ (ReplayIterate /\ replay.paused /\ ~replay.pending_step /\ replay.pending_seek = None)
            => /\ replay'.current_tick = replay.current_tick
               /\ replay'.out = <<>>
               /\ replay'.paused
       /\ (ReplayStepCommand /\ ~replay.paused)
            => replay' = [replay EXCEPT !.out = <<>>]
       /\ (ReplayStepCommand /\ replay.paused)
            => replay' = [replay EXCEPT !.out = <<>>, !.pending_step = TRUE]]_vars

\* a paused source that has just served a step by advancing onto a stored tick
C33_Witness ==
    /\ replay # None
    /\ replay.running
    /\ replay.paused
    /\ ~replay.pending_step
    /\ replay.current_tick # None
    /\ replay.out = <<ReplayTickEvent(replay.current_tick[1])>>

\* -------------------------------------------- ReplayWorldSource, position

\* C34: over a non-empty store, once the source was connected current_tick
\* is within the tick range of the source, whatever commands and iterations
\* follow, and a seek command leaves the source paused.
C34_PositionInvariant ==
    [][replay.store.ticks # <<>>
       => /\ replay'.current_tick # None =>
                /\ StoreTickRange(replay.store)[1] <= replay'.current_tick[1]
                /\ replay'.current_tick[1] <= StoreTickRange(replay.store)[2]
          /\ (replay.connected \/ replay'.connected) => replay'.current_tick # None
          /\ (\E t \in -1..(MaxReplayTick + 1) : ReplaySeekCommand(t)) => replay'.paused]_vars

\* ------------------------------------------------ ReplayWorldSource, seek

\* C35: over a non-empty store, when seek(t) returns it returns the snapshot
\* of t clamped to the tick range of the store, and current_tick is that
\* tick, whether the loop has iterated during the wait of the call or not.
C35_SeekReturnsTarget ==
    [][(ReplaySeekReturn /\ replay.store.ticks # <<>>)
       => LET tick_range == StoreTickRange(replay.store)
              target == Max(tick_range[1], Min(replay.seek.tick, tick_range[2]))
          IN  /\ replay'.seek.ret = Some(target)
              /\ replay'.current_tick = Some(target)]_vars

\* --------------------------------------------- HistoryCapturingSource gating
\* the wrapper's generator of subscription c took an event from the wrapped
\* source and yielded it
GateYielded(c) == sub[c] = "waiting" /\ sub'[c] = "yielded"

\* the wrapper's generator of subscription c took an event from the wrapped
\* source and did not yield it
GateSuppressed(c) ==
    /\ cmds' = cmds
    /\ wtask[c] = "running"
    /\ sub[c] = "waiting" /\ sub'[c] = "waiting"
    /\ queue[c] # <<>>
    /\ queue'[c] = Tail(queue[c])

\* C36 as stated: a tick event the wrapper receives is in its store afterwards,
\* paused or not; while the wrapper is paused an event is yielded only when a
\* step command is owed one, and an event is suppressed only when the wrapper
\* is paused and no step command is owed one (each step command lets exactly
\* one later event through); a suppressed event is sent to no client and is
\* no longer queued, so it is not yielded later
C36_Gating ==
    [][\A c \in Subs :
          /\ (GateYielded(c) \/ GateSuppressed(c)) /\ Head(queue[c]).type = "snapshot"
                => HistoryGetSnapshot(hc_store', Head(queue[c]).tick) # None
          /\ GateYielded(c) /\ hc_paused => hc_owed > 0
          /\ GateSuppressed(c) => hc_paused /\ hc_owed = 0
          /\ GateSuppressed(c) => /\ out' = out
                                  /\ \A i \in DOMAIN queue'[c] : queue'[c][i] # Head(queue[c])]_vars

\* the part of C36 that does not count step commands
C36_GatingOneFlag ==
    [][\A c \in Subs :
          /\ (GateYielded(c) \/ GateSuppressed(c)) /\ Head(queue[c]).type = "snapshot"
                => HistoryGetSnapshot(hc_store', Head(queue[c]).tick) # None
          /\ GateYielded(c) /\ hc_paused => hc_owed > 0
          /\ GateSuppressed(c) => hc_paused /\ ~hc_step
          /\ GateSuppressed(c) => /\ out' = out
                                  /\ \A i \in DOMAIN queue'[c] : queue'[c][i] # Head(queue[c])]_vars

\* ------------------------------------------------------------ single driver
\* the _run_loop task d is alive and its next pass runs the tick body
Advancing(d) ==
    /\ joining # d
    /\ \/ drv[d].pc = "ready"
       \/ drv[d].pc = "waiting" /\ ~IsSet(drv[d].ev)
    /\ LoopCondition

\* C37 as stated: whatever connect() and disconnect() calls were made, at most
\* one driver task advances the tick
C37_SingleDriver == Cardinality({d \in Drivers : Advancing(d)}) <= 1

\* ------------------------------------------------ subscription registration
\* the tick of this step put its snapshot event on the queue of s
Enqueued(s) ==
    /\ Len(queue'[s]) > Len(queue[s])
    /\ queue'[s][Len(queue[s]) + 1] = SnapshotMessage(tick')

\* C38 as stated: on a connected source, the snapshot event of every tick
\* executed after subscribe() was called is put on the subscription's queue if
\* the queue has room, whether the returned stream was iterated or not; and
\* nothing a subscription is given was emitted before its registration
C38_RegisteredAtCall ==
    /\ [][Ticked /\ connected =>
            \A s \in Subs :
                sub[s] \in {"created", "waiting", "yielded"} /\ Len(queue[s]) < QueueMax
                    => Enqueued(s)]_vars
    /\ [](\A s \in Subs : \A i \in DOMAIN Seen(s) : Seen(s)[i].tick > regTick[s])

\* C38 amended: the queue is registered by the first iteration of the
\* returned stream.  From then on the snapshot event of every tick is put on
\* the queue if it has room; a tick executed between the call of subscribe()
\* and the first iteration puts nothing on it; and nothing a subscription is
\* given was emitted before its registration
C38_RegisteredAtFirstIteration ==
    /\ [][Ticked /\ connected =>
            \A s \in Subs :
                /\ sub[s] \in {"waiting", "yielded"} /\ Len(queue[s]) < QueueMax => Enqueued(s)
                /\ sub[s] = "created" => queue'[s] = <<>> /\ s \notin subscribers']_vars
    /\ [](\A s \in Subs : \A i \in DOMAIN Seen(s) : Seen(s)[i].tick > regTick[s])

\* subscribe() was called for one subscription and its stream is not iterated
\* yet, while another, registered after tick 1, has been given the snapshot of
\* tick 2
C38_Witness ==
    \E s1 \in Subs, s2 \in Subs :
        /\ connected
        /\ sub[s1] = "created"
        /\ sub[s2] \in {"waiting", "yielded"}
        /\ regTick[s2] = 1
        /\ tick = 2
        /\ Seen(s2) # <<>>
        /\ Seen(s2)[1] = SnapshotMessage(2)

\* --------------------------------------------------- connection retries
\* the delays a call of _establish_connection may sleep, in order, when none
\* exceeds the maximum: the initial delay, then twice the one before, capped
RECURSIVE Backoff(_, _, _)
Backoff(delay, cap, n) ==
    IF n = 0 THEN <<>> ELSE <<delay>> \o Backoff(Min(delay * 2, cap), cap, n - 1)

\* the attempts a call of _establish_connection may make
AttemptLimit(cfg) == Max(cfg.reconnect_attempts, 1)

\* the part of C39 about the number of attempts and about disconnect()
RetryBounded ==
    /\ remote.made <= AttemptLimit(remote.cfg)
    /\ remote.pc = "raised" => remote.made = AttemptLimit(remote.cfg)
    /\ remote.pc = "sleeping" => remote.made < AttemptLimit(remote.cfg)
    /\ remote.pc = "connecting" /\ remote.made > 1 => remote.caller = "connect" \/ remote.connected

\* C39 as stated: a call of _establish_connection whose attempts all fail
\* makes at most N attempts (one when N = 0) and raises after the last one;
\* its sleeps start at reconnect_delay, double after each failure and never
\* exceed max_reconnect_delay; no attempt is started after disconnect()
C39_RetryTerminates ==
    /\ [](/\ RetryBounded
          /\ remote.slept = Backoff(remote.cfg.reconnect_delay, remote.cfg.max_reconnect_delay,
                                    Len(remote.slept))
          /\ \A i \in DOMAIN remote.slept : remote.slept[i] <= remote.cfg.max_reconnect_delay)
    /\ [][remote'.made = remote.made + 1 => remote'.connected]_vars

\* the same without the bound on the delays
C39_RetryAttempts ==
    /\ [](/\ RetryBounded
          /\ remote.slept = Backoff(remote.cfg.reconnect_delay, remote.cfg.max_reconnect_delay,
                                    Len(remote.slept)))
    /\ [][remote'.made = remote.made + 1 => remote'.connected]_vars

\* ------------------------------------------------- FileHistoryStore.clear
\* a step that is clear() on a store opened for writing
Cleared == fstore.mode \in {"a", "w"} /\ fstore' = ClearFile(fstore)

\* a step that is get_tick(t) for a tick recorded since the store, opened for
\* writing, was last cleared; a handle opened by clear() is there until close()
ReadAfterClear(t) ==
    /\ fstore.mode \in {"a", "w"}
    /\ fstore.handle = "w"
    /\ fstore.index[t] >= 0
    /\ fstore' = GetTick(fstore, t)

\* C40 as stated: clear() on a writable store leaves tick_count 0 and no
\* tick_range, and get_tick of a tick recorded after the clear returns a
\* record and raises nothing
C40_ClearedIsFresh ==
    [][/\ Cleared => tick_count(fstore') = 0 /\ fstore'.tick_range = None
       /\ \A t \in FileTicks :
              ReadAfterClear(t) => fstore'.raised = "none" /\ fstore'.result # None]_vars

\* the part of C40 about clear() itself
C40_ClearedIsEmpty ==
    [][Cleared => /\ tick_count(fstore') = 0
                  /\ fstore'.tick_range = None
                  /\ fstore'.disk = <<>>
                  /\ fstore'.raised = "none"]_vars

====
